---- MODULE Spec2Model ----
(***************************************************************************)
(* A model of BFG Forge (src/bfg_forge.py): the declaration-script lexer,  *)
(* the material (.mtr) and entity (.def) importers, the number formatter   *)
(* ftos and the JSON map exporter.                                         *)
(*                                                                         *)
(* Text is a sequence of one-character strings; positions are 0-based as   *)
(* in the Python source, so the character at position p is data[p + 1].    *)
(***************************************************************************)
EXTENDS Integers, Sequences, FiniteSets, TLC

VARIABLES
    lex,                \* the Lexer object: [data, pos, line]
    calls,              \* the parse_token calls made so far, each with what it returned
    disk,               \* the search directories, highest priority first, each a list of files
    material_decls,     \* scene.bfg.material_decls, in insertion order
    material_decl_paths,\* scene.bfg.material_decl_paths
    entities,           \* scene.bfg.entities, in insertion order
    op,                 \* the import operator: execute and for_each_file
    imp,                \* the locals of parse_material_file / parse_def_file
    results,            \* what each parse_*_file call returned or raised, in order
    steps,              \* the iterations of the body loop made in the current declaration
    game_path,          \* scene.bfg.game_path is set
    groups,             \* bpy.data.groups, each group with its objects
    scene_objects,      \* context.scene.objects
    map_file,           \* the file at the export operator's filepath
    export,             \* the export operator
    ftos_a,             \* the argument of a call of ftos
    ftos_result         \* what the call returned

lexVars == <<lex, calls>>
importVars == <<game_path, disk, material_decls, material_decl_paths, entities, op, imp,
                results, steps>>
exportVars == <<groups, scene_objects, map_file, export>>
ftosVars == <<ftos_a, ftos_result>>
vars == <<lex, calls, game_path, disk, material_decls, material_decl_paths, entities, op, imp,
          results, steps, groups, scene_objects, map_file, export, ftos_a, ftos_result>>

(***************************************************************************)
(* Bounds of the model.                                                    *)
(***************************************************************************)
MaxLen == 5
MaxCalls == 4
MaxPieces == 3
MaxRuns == 2
MaxMantissa == 125
MaxExponent == 8
MaxMagnitude == 2000000000
MaxObjects == 3

(***************************************************************************)
(* LEXER                                                                   *)
(***************************************************************************)
valid_token_chars ==
    { "a","b","c","d","e","f","g","h","i","j","k","l","m","n","o","p","q","r","s",
      "t","u","v","w","x","y","z",
      "A","B","C","D","E","F","G","H","I","J","K","L","M","N","O","P","Q","R","S",
      "T","U","V","W","X","Y","Z",
      "0","1","2","3","4","5","6","7","8","9",
      "_","/","\\","-",".","&",":" }

valid_single_tokens ==
    { "{","}","[","]","(",")","+","-","*","/","%","!","=","<",">","," }

\* The characters c of the model's alphabets with ord(c) <= ord(" ").
ControlOrSpace == { " ", "\t", "\n", "\r" }

\* self.data[self.pos + 1] if self.pos + 1 < len(self.data) else None
NoChar == "None"
CharAt(data, pos) == data[pos + 1]
NextChar(data, pos) == IF pos + 1 < Len(data) THEN data[pos + 2] ELSE NoChar

eof(data, pos) == pos >= Len(data)

\* The line-comment loop of skip_whitespace: stops at end of input or ON the newline.
RECURSIVE SkipLineComment(_, _)
SkipLineComment(data, pos) ==
    IF eof(data, pos) \/ CharAt(data, pos) = "\n"
    THEN pos
    ELSE SkipLineComment(data, pos + 1)

\* The block-comment loop of skip_whitespace: entered ON the opening slash; stops
\* after the first "*/" or at end of input. It does not touch self.line.
RECURSIVE SkipBlockComment(_, _)
SkipBlockComment(data, pos) ==
    IF eof(data, pos)
    THEN pos
    ELSE IF CharAt(data, pos) = "*" /\ NextChar(data, pos) = "/"
         THEN pos + 2
         ELSE SkipBlockComment(data, pos + 1)

RECURSIVE skip_whitespace(_, _, _)
skip_whitespace(data, pos, line) ==
    IF eof(data, pos)
    THEN [pos |-> pos, line |-> line]
    ELSE LET c  == CharAt(data, pos)
             nc == NextChar(data, pos)
         IN  IF c = "\n" THEN skip_whitespace(data, pos + 1, line + 1)
             ELSE IF c \in ControlOrSpace THEN skip_whitespace(data, pos + 1, line)
             ELSE IF c = "/" /\ nc = "/"
                  THEN skip_whitespace(data, SkipLineComment(data, pos), line)
             ELSE IF c = "/" /\ nc = "*"
                  THEN skip_whitespace(data, SkipBlockComment(data, pos), line)
             ELSE [pos |-> pos, line |-> line]

\* What parse_token hands back: the token (tok), or None (none), or an exception
\* (err, with the message), and the position it leaves in self.pos.
Returned(tok, pos) == [tok |-> tok, none |-> FALSE, err |-> "", pos |-> pos]
ReturnedNone(pos)  == [tok |-> <<>>, none |-> TRUE, err |-> "", pos |-> pos]
Raised(msg, pos)   == [tok |-> <<>>, none |-> FALSE, err |-> msg, pos |-> pos]

\* self.data[a:b]
Slice(data, a, b) == SubSeq(data, a + 1, b)

\* return self.data[start + 1:self.pos - 1]
QuotedSliceKeepQuotes(data, start, pos) == Slice(data, start, pos)
QuotedSlice(data, start, pos) == Slice(data, start + 1, pos - 1)

\* The quoted token at end of input, were the characters read so far returned.
QuotedEofPartial(data, start, pos) == Returned(Slice(data, start + 1, pos), pos)

\* if self.eof(): raise Exception("eof in quoted token")
QuotedEof(data, start, pos) == Raised("eof in quoted token", pos)

\* The inner loop of parse_token after the opening quote was consumed.
RECURSIVE ScanQuoted(_, _, _)
ScanQuoted(data, start, pos) ==
    IF eof(data, pos)
    THEN QuotedEof(data, start, pos)
    ELSE IF CharAt(data, pos) = "\""
         THEN Returned(QuotedSlice(data, start, pos + 1), pos + 1)
         ELSE ScanQuoted(data, start, pos + 1)

\* if self.pos == start: self.pos += 1   (a single character token), then break
SingleTokenEndAlways(start, pos) == pos + 1
SingleTokenEnd(start, pos) == IF pos = start THEN pos + 1 ELSE pos

\* The test for a quote in the middle of a token, were every quote taken to open a token.
QuoteInMiddleNever(start, pos) == FALSE

\* if not start == self.pos
QuoteInMiddle(start, pos) == start # pos

\* The main loop of parse_token, from the first character of the token.
RECURSIVE ScanToken(_, _, _)
ScanToken(data, start, pos) ==
    IF eof(data, pos)
    THEN Returned(Slice(data, start, pos), pos)
    ELSE LET c  == CharAt(data, pos)
             nc == NextChar(data, pos)
         IN  IF c = "\""
             THEN IF QuoteInMiddle(start, pos)
                  THEN Raised("quote in middle of token", pos)
                  ELSE ScanQuoted(data, start, pos + 1)
             ELSE IF (c = "/" /\ nc = "/") \/ (c = "/" /\ nc = "*")
                  THEN Returned(Slice(data, start, pos), pos)
             ELSE IF c \notin valid_token_chars
                  THEN LET end == IF c \in valid_single_tokens
                                  THEN SingleTokenEnd(start, pos)
                                  ELSE pos
                       IN  Returned(Slice(data, start, end), end)
             ELSE ScanToken(data, start, pos + 1)

\* The end of parse_token: the result r of the scan that began at start, after
\* skip_whitespace left the lexer at sw.
ParseTokenResult(lx, sw, r) ==
    [ret   |-> r,
     start |-> sw.pos,
     lex   |-> [data |-> lx.data, pos |-> r.pos, line |-> sw.line]]

\* parse_token after its call of skip_whitespace, which left the lexer at sw.
ParseTokenFrom(lx, sw) ==
    ParseTokenResult(lx, sw, IF eof(lx.data, sw.pos)
                             THEN ReturnedNone(sw.pos)
                             ELSE ScanToken(lx.data, sw.pos, sw.pos))

\* Lexer.parse_token on the lexer lx: the result and the lexer afterwards.
parse_token(lx) == ParseTokenFrom(lx, skip_whitespace(lx.data, lx.pos, lx.line))

\* Lexer.__init__: line 1, position 0, the file's contents.
NewLexer(data) == [data |-> data, pos |-> 0, line |-> 1]

(***************************************************************************)
(* Strings of the importers. A Python None is the value None below, which  *)
(* no token equals (a token holds one-character strings only).             *)
(***************************************************************************)
None == <<"None">>

kw_particle == <<"p", "a", "r", "t", "i", "c", "l", "e">>
kw_skin == <<"s", "k", "i", "n">>
kw_table == <<"t", "a", "b", "l", "e">>
kw_material == <<"m", "a", "t", "e", "r", "i", "a", "l">>
kw_blend == <<"b", "l", "e", "n", "d">>
kw_map == <<"m", "a", "p">>
kw_heightmap == <<"h", "e", "i", "g", "h", "t", "m", "a", "p">>
kw_bumpmap == <<"b", "u", "m", "p", "m", "a", "p">>
kw_diffusemap == <<"d", "i", "f", "f", "u", "s", "e", "m", "a", "p">>
kw_qer_editorimage == <<"q", "e", "r", "_", "e", "d", "i", "t", "o", "r", "i", "m", "a", "g", "e">>
kw_specularmap == <<"s", "p", "e", "c", "u", "l", "a", "r", "m", "a", "p">>
kw_entityDef == <<"e", "n", "t", "i", "t", "y", "D", "e", "f">>
kw_editor_color == <<"e", "d", "i", "t", "o", "r", "_", "c", "o", "l", "o", "r">>
kw_editor_mins == <<"e", "d", "i", "t", "o", "r", "_", "m", "i", "n", "s">>
kw_editor_maxs == <<"e", "d", "i", "t", "o", "r", "_", "m", "a", "x", "s">>
kw_editor_usage == <<"e", "d", "i", "t", "o", "r", "_", "u", "s", "a", "g", "e">>
default_color == <<"0", " ", "0", " ", "1">>

UpperCase == <<"A","B","C","D","E","F","G","H","I","J","K","L","M","N","O","P","Q","R","S",
               "T","U","V","W","X","Y","Z">>
LowerCase == <<"a","b","c","d","e","f","g","h","i","j","k","l","m","n","o","p","q","r","s",
               "t","u","v","w","x","y","z">>

\* str.lower() on the ASCII text of the model
LowerChar(c) ==
    IF \E i \in 1..26 : UpperCase[i] = c
    THEN LowerCase[CHOOSE i \in 1..26 : UpperCase[i] = c]
    ELSE c
lower(tok) == [i \in 1..Len(tok) |-> LowerChar(tok[i])]

\* The value a parse_token call hands to its caller: the token, or None.
TokenOf(r) == IF r.ret.none THEN None ELSE r.ret.tok

\* if x: for x a string or None
Truthy(x) == x # None /\ x # <<>>

Digits == <<"0","1","2","3","4","5","6","7","8","9">>
IsDigit(c) == \E i \in 1..10 : Digits[i] = c
DigitValue(c) == (CHOOSE i \in 1..10 : Digits[i] = c) - 1

\* float(token) for the number tokens of the model, which are runs of decimal
\* digits; float(None) and float of any other token of the model raise.
IsNumber(tok) == tok # None /\ tok # <<>> /\ \A i \in 1..Len(tok) : IsDigit(tok[i])
RECURSIVE float(_)
float(tok) ==
    IF tok = <<>> THEN 0
    ELSE 10 * float(SubSeq(tok, 1, Len(tok) - 1)) + DigitValue(tok[Len(tok)])

\* Lexer.expect_token: the lexer afterwards and the exception raised, if any,
\* r being what its call of parse_token gave.
ExpectTokenCheck(r, token) ==
    [lex |-> r.lex,
     err |-> IF r.ret.err # "" THEN r.ret.err
             ELSE IF TokenOf(r) # token THEN "expected token"
             ELSE "",
     expected |-> token,
     got |-> TokenOf(r),
     line |-> r.lex.line]
expect_token(lx, token) == ExpectTokenCheck(parse_token(lx), token)

\* The loop of skip_bracket_delimiter_section; r is the token of this iteration,
\* read with the lexer at lx. A token that is neither bracket and leaves the
\* lexer where it was is returned again by every later call: the loop never
\* ends (err "hang").
RECURSIVE SkipBracketLoop(_, _, _, _)
SkipBracketIteration(r, lx, opening, closing, num_required_closing) ==
    IF r.ret.err # "" THEN [lex |-> r.lex, err |-> r.ret.err]
    ELSE IF TokenOf(r) = None THEN [lex |-> r.lex, err |-> ""]
    ELSE IF TokenOf(r) = opening
         THEN SkipBracketLoop(r.lex, opening, closing, num_required_closing + 1)
    ELSE IF TokenOf(r) = closing
         THEN IF num_required_closing - 1 = 0
              THEN [lex |-> r.lex, err |-> ""]
              ELSE SkipBracketLoop(r.lex, opening, closing, num_required_closing - 1)
    ELSE IF r.lex = lx THEN [lex |-> r.lex, err |-> "hang"]
    ELSE SkipBracketLoop(r.lex, opening, closing, num_required_closing)
SkipBracketLoop(lx, opening, closing, num_required_closing) ==
    SkipBracketIteration(parse_token(lx), lx, opening, closing, num_required_closing)

\* The section skipped from inside, were the opening token consumed by the caller.
SkipBracketOpenedByCaller(lx, opening, closing) == SkipBracketLoop(lx, opening, closing, 1)

\* Lexer.skip_bracket_delimiter_section; e is what its call of expect_token gave.
SkipBracketAfterExpect(e, opening, closing) ==
    IF e.err # "" THEN [lex |-> e.lex, err |-> e.err]
    ELSE SkipBracketLoop(e.lex, opening, closing, 1)
skip_bracket_delimiter_section(lx, opening, closing) ==
    SkipBracketAfterExpect(expect_token(lx, opening), opening, closing)

(***************************************************************************)
(* MATERIALS                                                               *)
(***************************************************************************)
\* MaterialDeclPropGroup: a new item of the collection, every property at its default.
MaterialDeclPropGroup ==
    [name |-> <<>>, diffuse_texture |-> <<>>, editor_texture |-> <<>>, heightmap_scale |-> 0,
     normal_texture |-> <<>>, specular_texture |-> <<>>, texture |-> <<>>]

Least(S) == CHOOSE m \in S : \A n \in S : m <= n

\* The lookup of a name, were no record ever found.
ContainsNever(coll, name) == FALSE

\* name in collection
Contains(coll, name) == \E i \in 1..Len(coll) : coll[i].name = name

\* collection[name] (the first item of that name)
IndexOf(coll, name) == Least({ i \in 1..Len(coll) : coll[i].name = name })

\* The locals of a parse function at the top of its outer loop.
ParseLocals ==
    [pc |-> "top", err |-> "", num_created |-> 0, num_updated |-> 0, decl |-> 0,
     num_required_closing |-> 0, in_stage |-> FALSE, stage_blend |-> None,
     stage_heightmap_scale |-> 0, stage_texture |-> None]

\* An exception leaves the parse function: its locals are gone, the message is kept.
Raise(f, msg) == [f EXCEPT !.pc = "error", !.err = msg]

\* ImportMaterials.parse_heightmap, statement by statement: each operator takes
\* what the statement before it gave.
HeightmapRaise(lx, msg) == [lex |-> lx, err |-> msg, texture |-> None, scale |-> 0]
HeightmapClose(texture, scale, e3) ==          \* lex.expect_token(")"); return
    IF e3.err # "" THEN HeightmapRaise(e3.lex, e3.err)
    ELSE [lex |-> e3.lex, err |-> "", texture |-> texture, scale |-> float(scale)]
HeightmapScale(texture, r2) ==                 \* scale = float(lex.parse_token())
    IF r2.ret.err # "" THEN HeightmapRaise(r2.lex, r2.ret.err)
    ELSE IF TokenOf(r2) = None THEN HeightmapRaise(r2.lex, "TypeError")
    ELSE IF ~IsNumber(TokenOf(r2)) THEN HeightmapRaise(r2.lex, "ValueError")
    ELSE HeightmapClose(texture, TokenOf(r2), expect_token(r2.lex, <<")">>))
HeightmapComma(texture, e2) ==                 \* lex.expect_token(",")
    IF e2.err # "" THEN HeightmapRaise(e2.lex, e2.err)
    ELSE HeightmapScale(texture, parse_token(e2.lex))
HeightmapTexture(r1) ==                        \* texture = lex.parse_token()
    IF r1.ret.err # "" THEN HeightmapRaise(r1.lex, r1.ret.err)
    ELSE HeightmapComma(TokenOf(r1), expect_token(r1.lex, <<",">>))
HeightmapOpen(e1) ==                           \* lex.expect_token("(")
    IF e1.err # "" THEN HeightmapRaise(e1.lex, e1.err)
    ELSE HeightmapTexture(parse_token(e1.lex))
parse_heightmap(lx) == HeightmapOpen(expect_token(lx, <<"(">>))

\* Closing a stage: the writes of the branch num_required_closing == 1.
StageTypedFieldsFirstWins(decl, stage_blend, stage_texture, stage_heightmap_scale) ==
    IF Truthy(stage_blend) /\ Truthy(stage_texture)
    THEN IF lower(stage_blend) = kw_bumpmap /\ decl.normal_texture = <<>>
         THEN [decl EXCEPT !.normal_texture = stage_texture,
                           !.heightmap_scale = stage_heightmap_scale]
         ELSE IF lower(stage_blend) = kw_diffusemap /\ decl.diffuse_texture = <<>>
         THEN [decl EXCEPT !.diffuse_texture = stage_texture]
         ELSE IF lower(stage_blend) = kw_specularmap /\ decl.specular_texture = <<>>
         THEN [decl EXCEPT !.specular_texture = stage_texture]
         ELSE decl
    ELSE decl
StageTypedFields(decl, stage_blend, stage_texture, stage_heightmap_scale) ==
    IF Truthy(stage_blend) /\ Truthy(stage_texture)
    THEN IF lower(stage_blend) = kw_bumpmap
         THEN [decl EXCEPT !.normal_texture = stage_texture,
                           !.heightmap_scale = stage_heightmap_scale]
         ELSE IF lower(stage_blend) = kw_diffusemap
         THEN [decl EXCEPT !.diffuse_texture = stage_texture]
         ELSE IF lower(stage_blend) = kw_specularmap
         THEN [decl EXCEPT !.specular_texture = stage_texture]
         ELSE decl
    ELSE decl

\* Closing a stage, were the texture of a stage without a recognized blend kind
\* taken for the diffuse texture.
StageCloseUntypedAsDiffuse(decl, f) ==
    LET d1 == IF Truthy(f.stage_texture)
              THEN [decl EXCEPT !.texture = f.stage_texture]
              ELSE decl
        d2 == StageTypedFields(d1, f.stage_blend, f.stage_texture, f.stage_heightmap_scale)
    IN  IF d2 = d1 /\ Truthy(f.stage_texture)
        THEN [d2 EXCEPT !.diffuse_texture = f.stage_texture]
        ELSE d2

\* if stage_texture: decl.texture = stage_texture, then the typed fields
StageClose(decl, f) ==
    LET d1 == IF Truthy(f.stage_texture)
              THEN [decl EXCEPT !.texture = f.stage_texture]
              ELSE decl
    IN  StageTypedFields(d1, f.stage_blend, f.stage_texture, f.stage_heightmap_scale)

\* The brace branches, were the stage taken to end at every closing brace
\* that does not end the decl.
MatBracesStageEndsAtAnyClose(token, f, decl) ==
    IF token = <<"{">>
    THEN LET n == f.num_required_closing + 1
         IN  [f |-> IF n = 2
                    THEN [f EXCEPT !.num_required_closing = n, !.in_stage = TRUE,
                                   !.stage_blend = None, !.stage_heightmap_scale = 0,
                                   !.stage_texture = None]
                    ELSE [f EXCEPT !.num_required_closing = n],
              decl |-> decl, brk |-> FALSE]
    ELSE IF token = <<"}">>
    THEN LET n == f.num_required_closing - 1
         IN  IF n = 0
             THEN [f |-> [f EXCEPT !.num_required_closing = n], decl |-> decl, brk |-> TRUE]
             ELSE [f |-> [f EXCEPT !.num_required_closing = n, !.in_stage = FALSE],
                   decl |-> IF n = 1 THEN StageClose(decl, f) ELSE decl, brk |-> FALSE]
    ELSE [f |-> f, decl |-> decl, brk |-> FALSE]

\* The brace branches of the body loop of parse_material_file:
\* the locals, the decl and whether the loop breaks.
MatBraces(token, f, decl) ==
    IF token = <<"{">>
    THEN LET n == f.num_required_closing + 1
         IN  [f |-> IF n = 2
                    THEN [f EXCEPT !.num_required_closing = n, !.in_stage = TRUE,
                                   !.stage_blend = None, !.stage_heightmap_scale = 0,
                                   !.stage_texture = None]
                    ELSE [f EXCEPT !.num_required_closing = n],
              decl |-> decl, brk |-> FALSE]
    ELSE IF token = <<"}">>
    THEN LET n == f.num_required_closing - 1
         IN  IF n = 0
             THEN [f |-> [f EXCEPT !.num_required_closing = n], decl |-> decl, brk |-> TRUE]
             ELSE IF n = 1
             THEN [f |-> [f EXCEPT !.num_required_closing = n, !.in_stage = FALSE],
                   decl |-> StageClose(decl, f), brk |-> FALSE]
             ELSE [f |-> [f EXCEPT !.num_required_closing = n], decl |-> decl, brk |-> FALSE]
    ELSE [f |-> f, decl |-> decl, brk |-> FALSE]

\* The assignment, were a field that holds a value already left as it is.
AssignTokenIfEmpty(r, f, decl, field) ==
    IF r.ret.err # "" THEN [lex |-> r.lex, f |-> Raise(f, r.ret.err), decl |-> decl]
    ELSE IF TokenOf(r) = None
    THEN [lex |-> r.lex, f |-> Raise(f, "TypeError"), decl |-> decl]
    ELSE [lex |-> r.lex, f |-> f,
          decl |-> IF decl[field] = <<>> THEN [decl EXCEPT ![field] = TokenOf(r)] ELSE decl]

\* decl.<field> = lex.parse_token(), r being the token: a StringProperty
\* refuses None with a TypeError.
AssignToken(r, f, decl, field) ==
    IF r.ret.err # "" THEN [lex |-> r.lex, f |-> Raise(f, r.ret.err), decl |-> decl]
    ELSE IF TokenOf(r) = None
    THEN [lex |-> r.lex, f |-> Raise(f, "TypeError"), decl |-> decl]
    ELSE [lex |-> r.lex, f |-> f, decl |-> [decl EXCEPT ![field] = TokenOf(r)]]

\* stage_blend = lex.parse_token()
StageBlend(r, f, decl) ==
    IF r.ret.err # "" THEN [lex |-> r.lex, f |-> Raise(f, r.ret.err), decl |-> decl]
    ELSE [lex |-> r.lex, f |-> [f EXCEPT !.stage_blend = TokenOf(r)], decl |-> decl]

\* (stage_texture, stage_heightmap_scale) = self.parse_heightmap(decl, lex)
StageHeightmap(h, f, decl) ==
    IF h.err # "" THEN [lex |-> h.lex, f |-> Raise(f, h.err), decl |-> decl]
    ELSE [lex |-> h.lex,
          f |-> [f EXCEPT !.stage_texture = h.texture, !.stage_heightmap_scale = h.scale],
          decl |-> decl]

\* map in a stage: token = lex.parse_token(), then heightmap(...) or the texture
StageMap(r, f, decl) ==
    IF r.ret.err # "" THEN [lex |-> r.lex, f |-> Raise(f, r.ret.err), decl |-> decl]
    ELSE IF TokenOf(r) = None
    THEN [lex |-> r.lex, f |-> Raise(f, "AttributeError"), decl |-> decl]
    ELSE IF lower(TokenOf(r)) = kw_heightmap
    THEN StageHeightmap(parse_heightmap(r.lex), f, decl)
    ELSE [lex |-> r.lex, f |-> [f EXCEPT !.stage_texture = TokenOf(r)], decl |-> decl]

\* (decl.normal_texture, decl.heightmap_scale) = self.parse_heightmap(decl, lex)
DeclHeightmap(h, f, decl) ==
    IF h.err # "" THEN [lex |-> h.lex, f |-> Raise(f, h.err), decl |-> decl]
    ELSE [lex |-> h.lex, f |-> f,
          decl |-> [decl EXCEPT !.normal_texture = h.texture, !.heightmap_scale = h.scale]]

\* bumpmap in the decl body: token = lex.parse_token(), then heightmap(...) or the texture
DeclBumpmap(r, f, decl) ==
    IF r.ret.err # "" THEN [lex |-> r.lex, f |-> Raise(f, r.ret.err), decl |-> decl]
    ELSE IF TokenOf(r) = None
    THEN [lex |-> r.lex, f |-> Raise(f, "AttributeError"), decl |-> decl]
    ELSE IF lower(TokenOf(r)) = kw_heightmap
    THEN DeclHeightmap(parse_heightmap(r.lex), f, decl)
    ELSE [lex |-> r.lex, f |-> f, decl |-> [decl EXCEPT !.normal_texture = TokenOf(r)]]

\* The keyword branches of the body loop of parse_material_file.
MatKeywords(lx, token, f, decl) ==
    IF f.in_stage
    THEN IF lower(token) = kw_blend THEN StageBlend(parse_token(lx), f, decl)
         ELSE IF lower(token) = kw_map THEN StageMap(parse_token(lx), f, decl)
         ELSE [lex |-> lx, f |-> f, decl |-> decl]
    ELSE IF lower(token) = kw_bumpmap THEN DeclBumpmap(parse_token(lx), f, decl)
         ELSE IF lower(token) = kw_diffusemap
         THEN AssignToken(parse_token(lx), f, decl, "diffuse_texture")
         ELSE IF lower(token) = kw_qer_editorimage
         THEN AssignToken(parse_token(lx), f, decl, "editor_texture")
         ELSE IF lower(token) = kw_specularmap
         THEN AssignToken(parse_token(lx), f, decl, "specular_texture")
         ELSE [lex |-> lx, f |-> f, decl |-> decl]

\* The body loop after its brace branches gave b: break, or the keyword branches.
MatAfterBraces(lx, token, b) ==
    IF b.brk THEN [lex |-> lx, f |-> [b.f EXCEPT !.pc = "top"], decl |-> b.decl]
    ELSE MatKeywords(lx, token, b.f, b.decl)

\* One iteration of the body loop of parse_material_file, r being its token.
MatBodyToken(r, f, decl) ==
    IF r.ret.err # "" THEN [lex |-> r.lex, f |-> Raise(f, r.ret.err), decl |-> decl]
    ELSE IF TokenOf(r) = None
    THEN [lex |-> r.lex, f |-> [f EXCEPT !.pc = "top"], decl |-> decl]
    ELSE MatAfterBraces(r.lex, TokenOf(r), MatBraces(TokenOf(r), f, decl))
MatBodyIteration(lx, f, decl) == MatBodyToken(parse_token(lx), f, decl)

\* name in collection ? update it : add it. The counters and the index of the decl.
LookupOrCreateAlwaysCreated(coll, name, f, item) ==
    IF Contains(coll, name)
    THEN [coll |-> coll,
          f |-> [f EXCEPT !.decl = IndexOf(coll, name), !.num_created = @ + 1]]
    ELSE [coll |-> Append(coll, [item EXCEPT !.name = name]),
          f |-> [f EXCEPT !.decl = Len(coll) + 1, !.num_created = @ + 1]]
LookupOrCreate(coll, name, f, item) ==
    IF Contains(coll, name)
    THEN [coll |-> coll,
          f |-> [f EXCEPT !.decl = IndexOf(coll, name), !.num_updated = @ + 1]]
    ELSE [coll |-> Append(coll, [item EXCEPT !.name = name]),
          f |-> [f EXCEPT !.decl = Len(coll) + 1, !.num_created = @ + 1]]

\* A declaration that is skipped: lex.parse_token() for its name (r), then
\* lex.skip_bracket_delimiter_section("{", "}") (k).
SkipDeclarationEnd(k, f) ==
    IF k.err = "hang" THEN [lex |-> k.lex, f |-> [f EXCEPT !.pc = "hang"]]
    ELSE IF k.err # "" THEN [lex |-> k.lex, f |-> Raise(f, k.err)]
    ELSE [lex |-> k.lex, f |-> f]
SkipDeclarationName(r, f) ==
    IF r.ret.err # "" THEN [lex |-> r.lex, f |-> Raise(f, r.ret.err)]
    ELSE SkipDeclarationEnd(skip_bracket_delimiter_section(r.lex, <<"{">>, <<"}">>), f)

\* The skipped declaration, were only its name consumed and its section left to the scan.
SkipDeclarationNameOnly(lx, f) == [lex |-> parse_token(lx).lex, f |-> f]

\* lex.parse_token() # name; lex.skip_bracket_delimiter_section("{", "}")
SkipDeclaration(lx, f) == SkipDeclarationName(parse_token(lx), f)

Parsed(lx, f, decls) == [lex |-> lx, f |-> f, decls |-> decls]
Skipped(k, decls) == Parsed(k.lex, k.f, decls)

\* The outcome of the lookup c, were the record found or added put back to its defaults.
LookedAndReset(lx, c) ==
    Parsed(lx, [c.f EXCEPT !.pc = "open"],
           [c.coll EXCEPT ![c.f.decl] = [MaterialDeclPropGroup EXCEPT !.name = c.coll[c.f.decl].name]])

\* decl = scene.bfg.material_decls[name], or the item added under the name; its
\* properties are left as they are.
Looked(lx, c) == Parsed(lx, [c.f EXCEPT !.pc = "open"], c.coll)

\* if name in scene.bfg.material_decls: ... else: ...  (a name of None raises)
MatLookup(lx, name, f, decls) ==
    IF name = None THEN Parsed(lx, Raise(f, "TypeError"), decls)
    ELSE Looked(lx, LookupOrCreate(decls, name, f, MaterialDeclPropGroup))

\* name = lex.parse_token() after the token material
MatNameToken(r2, f, decls) ==
    IF r2.ret.err # "" THEN Parsed(r2.lex, Raise(f, r2.ret.err), decls)
    ELSE MatLookup(r2.lex, TokenOf(r2), f, decls)

\* One iteration of the outer loop of parse_material_file, r being its token, up
\* to the lookup of the decl (the opening brace is expected next, at pc "open").
MatTopToken(r, f, decls) ==
    IF r.ret.err # "" THEN Parsed(r.lex, Raise(f, r.ret.err), decls)
    ELSE IF TokenOf(r) = None THEN Parsed(r.lex, [f EXCEPT !.pc = "done"], decls)
    ELSE IF TokenOf(r) \in { kw_particle, kw_skin, kw_table }
    THEN Skipped(SkipDeclaration(r.lex, f), decls)
    ELSE IF TokenOf(r) = kw_material THEN MatNameToken(parse_token(r.lex), f, decls)
    ELSE MatLookup(r.lex, TokenOf(r), f, decls)
MatTopIteration(lx, f, decls) == MatTopToken(parse_token(lx), f, decls)

\* lex.expect_token("{") after the lookup (e), and the locals of the body loop.
OpenBodyExpected(e, f) ==
    IF e.err # "" THEN [lex |-> e.lex, f |-> Raise(f, e.err)]
    ELSE [lex |-> e.lex,
          f |-> [f EXCEPT !.pc = "body", !.num_required_closing = 1, !.in_stage = FALSE,
                          !.stage_blend = None, !.stage_heightmap_scale = 0,
                          !.stage_texture = None]]
OpenBody(lx, f) == OpenBodyExpected(expect_token(lx, <<"{">>), f)

\* os.path.dirname for the names of the model, which hold no backslash and no drive.
LastSlash(name) ==
    IF \E i \in 1..Len(name) : name[i] = "/"
    THEN CHOOSE i \in 1..Len(name) : name[i] = "/" /\ \A j \in (i + 1)..Len(name) : name[j] # "/"
    ELSE 0
RECURSIVE RStrip(_, _)
RStrip(str, chars) ==
    IF str # <<>> /\ str[Len(str)] \in chars
    THEN RStrip(SubSeq(str, 1, Len(str) - 1), chars)
    ELSE str
dirname(name) ==
    LET head == SubSeq(name, 1, LastSlash(name))
    IN  IF head # <<>> /\ \E i \in 1..Len(head) : head[i] # "/"
        THEN RStrip(head, {"/"})
        ELSE head

kw_textures == <<"t", "e", "x", "t", "u", "r", "e", "s">>
startswith(str, prefix) == Len(str) >= Len(prefix) /\ SubSeq(str, 1, Len(prefix)) = prefix

\* ImportMaterials.update_material_decl_paths
RECURSIVE DeclPathsFrom(_, _, _)
DeclPathsFrom(decls, i, paths) ==
    IF i > Len(decls) THEN paths
    ELSE LET name == dirname(decls[i].name)
         IN  DeclPathsFrom(decls, i + 1,
                 IF startswith(name, kw_textures) /\ ~Contains(paths, name)
                 THEN Append(paths, [name |-> name])
                 ELSE paths)
update_material_decl_paths(decls) == DeclPathsFrom(decls, 1, <<>>)

(***************************************************************************)
(* ENTITIES                                                                *)
(***************************************************************************)
\* EntityPropGroup: a new item of the collection, every property at its default.
EntityPropGroup == [name |-> <<>>, color |-> <<>>, usage |-> <<>>, mins |-> <<>>, maxs |-> <<>>]

\* entity.color = "0 0 1"; entity.mins = ""; entity.maxs = ""; entity.usage = ""
ResetEntityNewOnly(entity, isNew) ==
    IF isNew
    THEN [entity EXCEPT !.color = default_color, !.mins = <<>>, !.maxs = <<>>, !.usage = <<>>]
    ELSE entity
ResetEntity(entity, isNew) ==
    [entity EXCEPT !.color = default_color, !.mins = <<>>, !.maxs = <<>>, !.usage = <<>>]

\* The lookup, were the four resets left until the opening brace is read.
EntLookupKept(lx, c, isNew) == Parsed(lx, [c.f EXCEPT !.pc = "open"], c.coll)

\* if name in scene.bfg.entities: ... else: ..., then the four resets
EntLookupReset(lx, c, isNew) ==
    Parsed(lx, [c.f EXCEPT !.pc = "open"],
           [c.coll EXCEPT ![c.f.decl] = ResetEntity(@, isNew)])

\* name = lex.parse_token() after the token entityDef (a name of None raises)
EntNameToken(r2, f, ents) ==
    IF r2.ret.err # "" THEN Parsed(r2.lex, Raise(f, r2.ret.err), ents)
    ELSE IF TokenOf(r2) = None THEN Parsed(r2.lex, Raise(f, "TypeError"), ents)
    ELSE EntLookupReset(r2.lex, LookupOrCreate(ents, TokenOf(r2), f, EntityPropGroup),
                        ~Contains(ents, TokenOf(r2)))

\* One iteration of the outer loop of parse_def_file, r being its token, up to
\* the reset of the entity (the opening brace is expected next, at pc "open").
EntTopToken(r, f, ents) ==
    IF r.ret.err # "" THEN Parsed(r.lex, Raise(f, r.ret.err), ents)
    ELSE IF TokenOf(r) = None THEN Parsed(r.lex, [f EXCEPT !.pc = "done"], ents)
    ELSE IF TokenOf(r) # kw_entityDef THEN Skipped(SkipDeclaration(r.lex, f), ents)
    ELSE EntNameToken(parse_token(r.lex), f, ents)
EntTopIteration(lx, f, ents) == EntTopToken(parse_token(lx), f, ents)

\* One iteration of the body loop of parse_def_file, r being its token.
EntBodyToken(r, f, entity) ==
    IF r.ret.err # "" THEN [lex |-> r.lex, f |-> Raise(f, r.ret.err), decl |-> entity]
    ELSE IF TokenOf(r) = None
    THEN [lex |-> r.lex, f |-> [f EXCEPT !.pc = "top"], decl |-> entity]
    ELSE IF TokenOf(r) = <<"{">>
    THEN [lex |-> r.lex, f |-> [f EXCEPT !.num_required_closing = @ + 1], decl |-> entity]
    ELSE IF TokenOf(r) = <<"}">>
    THEN IF f.num_required_closing - 1 = 0
         THEN [lex |-> r.lex, f |-> [f EXCEPT !.num_required_closing = @ - 1, !.pc = "top"],
               decl |-> entity]
         ELSE [lex |-> r.lex, f |-> [f EXCEPT !.num_required_closing = @ - 1],
               decl |-> entity]
    ELSE IF TokenOf(r) = kw_editor_color THEN AssignToken(parse_token(r.lex), f, entity, "color")
    ELSE IF TokenOf(r) = kw_editor_mins THEN AssignToken(parse_token(r.lex), f, entity, "mins")
    ELSE IF TokenOf(r) = kw_editor_maxs THEN AssignToken(parse_token(r.lex), f, entity, "maxs")
    ELSE IF TokenOf(r) = kw_editor_usage THEN AssignToken(parse_token(r.lex), f, entity, "usage")
    ELSE [lex |-> r.lex, f |-> f, decl |-> entity]
EntBodyIteration(lx, f, entity) == EntBodyToken(parse_token(lx), f, entity)

(***************************************************************************)
(* UTILITY FUNCTIONS: ftos. A number is [neg, mag]: its sign and its       *)
(* magnitude in millionths, the digits the conversion %f renders (the      *)
(* conversion rounds to six decimals; the numbers of the model are already *)
(* multiples of a millionth). Negative zero is [neg |-> TRUE, mag |-> 0].  *)
(***************************************************************************)
Million == 1000000

DigitChars == <<"0", "1", "2", "3", "4", "5", "6", "7", "8", "9">>
DigitChar(d) == DigitChars[d + 1]

\* "%d" % n for n >= 0
RECURSIVE Decimal(_)
Decimal(n) == IF n < 10 THEN <<DigitChar(n)>> ELSE Decimal(n \div 10) \o <<DigitChar(n % 10)>>

\* the k fraction digits of "%f": n padded with zeros on the left
RECURSIVE FractionDigits(_, _)
FractionDigits(n, k) ==
    IF k = 0 THEN <<>> ELSE FractionDigits(n \div 10, k - 1) \o <<DigitChar(n % 10)>>

\* "%f" % a
FormatF(a) ==
    (IF a.neg THEN <<"-">> ELSE <<>>)
        \o Decimal(a.mag \div Million) \o <<".">> \o FractionDigits(a.mag % Million, 6)

\* ftos with one rstrip for both characters: ("%f" % a).rstrip('0.')
ftosStripTogether(a) == RStrip(FormatF(a), {"0", "."})

\* ("%f" % a).rstrip('0').rstrip('.')
ftos(a) == RStrip(RStrip(FormatF(a), {"0"}), {"."})

\* ftos was not called.
FtosUnused == ftos_a = [neg |-> FALSE, mag |-> 0] /\ ftos_result = None

(***************************************************************************)
(* EXPORT: ExportMap.create_primitive and ExportMap.execute.               *)
(*                                                                         *)
(* A float of the scene is an integer count of millionths. A value of the  *)
(* document is tagged with its Python type, which decides how json.dump    *)
(* writes it: PyStr is written in quotes, PyInt and PyFloat as numbers.    *)
(* Rotations are whole quarter turns, so that the matrix of                *)
(* Euler.to_matrix has entries -1, 0 and 1; a zero entry is rendered       *)
(* without a sign. The editor's mode, selection and active object and the  *)
(* temporary object and mesh of create_primitive, which are deleted again, *)
(* are not part of the state.                                              *)
(***************************************************************************)
scale_to_game == 64

PyStr(s) == [type |-> "str", val |-> s]
PyInt(i) == [type |-> "int", val |-> i]
PyFloat(m) == [type |-> "float", val |-> m]

\* the float x as a number for "%f"
Num(x) == [neg |-> x < 0, mag |-> IF x < 0 THEN 0 - x ELSE x]

kw_worldspawn == <<"w", "o", "r", "l", "d", "s", "p", "a", "w", "n">>
kw_light == <<"l", "i", "g", "h", "t">>
kw_default == <<"d", "e", "f", "a", "u", "l", "t">>

\* "%s %s %s" % (...), for any number of strings
RECURSIVE JoinSpace(_)
JoinSpace(strs) ==
    IF Len(strs) = 1 THEN strs[1] ELSE strs[1] \o <<" ">> \o JoinSpace(Tail(strs))

\* str.replace(old, new) for one-character old and new
Replace(str, old, new) == [i \in 1..Len(str) |-> IF str[i] = old THEN new ELSE str[i]]

\* obj.to_mesh(context.scene, True, 'PREVIEW'): the objects of the model carry no modifier
to_mesh(obj) == obj.data

\* temp_mesh.transform(obj.matrix_world), for a matrix that translates by `matrix_world`
TransformVertex(v, matrix_world) ==
    [v EXCEPT !.co = <<v.co[1] + matrix_world[1], v.co[2] + matrix_world[2],
                       v.co[3] + matrix_world[3]>>]
transform(mesh, matrix_world) ==
    [mesh EXCEPT !.vertices = [i \in 1..Len(mesh.vertices) |->
                                  TransformVertex(mesh.vertices[i], matrix_world)]]

\* bpy.ops.mesh.quads_convert_to_tris(): a polygon of n corners becomes the n - 2
\* triangles of the fan at its first corner.
FanTriangles(p) ==
    [k \in 1..(Len(p.corners) - 2) |->
        [material_index |-> p.material_index,
         corners |-> <<p.corners[1], p.corners[k + 1], p.corners[k + 2]>>]]
RECURSIVE TrianglesFrom(_, _)
TrianglesFrom(polygons, i) ==
    IF i > Len(polygons) THEN <<>>
    ELSE FanTriangles(polygons[i]) \o TrianglesFrom(polygons, i + 1)
quads_convert_to_tris(mesh) == [mesh EXCEPT !.polygons = TrianglesFrom(mesh.polygons, 1)]

\* mesh.loops: the corners of all polygons in polygon order; the loop at
\* position l + 1 has loop.index l.
RECURSIVE LoopsFrom(_, _)
LoopsFrom(polygons, i) ==
    IF i > Len(polygons) THEN <<>> ELSE polygons[i].corners \o LoopsFrom(polygons, i + 1)
Loops(mesh) == LoopsFrom(mesh.polygons, 1)

\* p.loop_indices of polygon i: its corners' positions in mesh.loops
LoopStart(polygons, i) == Len(LoopsFrom(SubSeq(polygons, 1, i - 1), 1))
LoopIndices(polygons, i) ==
    [k \in 1..Len(polygons[i].corners) |-> LoopStart(polygons, i) + k - 1]

\* The members of a set of numbers in increasing order.
RECURSIVE Ascending(_)
Ascending(S) == IF S = {} THEN <<>> ELSE <<Least(S)>> \o Ascending(S \ { Least(S) })

\* vert_map[i] after the first loop over the polygons: the loop indices of
\* vertex i (0-based) in the order the polygons list them.
LoopsOfVertex(loops, i) ==
    Ascending({ l \in 0..(Len(loops) - 1) : loops[l + 1].vertex_index = i })

\* vert_map after the numbering loop: for each vertex the list of
\* [new vertex index, loop index], numbered from num_vertices on.
RECURSIVE NumberedFrom(_, _, _, _)
NumberedFrom(loops, num_of_vertices, i, num_vertices) ==
    IF i >= num_of_vertices THEN <<>>
    ELSE << [k \in 1..Len(LoopsOfVertex(loops, i)) |->
                <<num_vertices + k - 1, LoopsOfVertex(loops, i)[k]>>] >>
         \o NumberedFrom(loops, num_of_vertices, i + 1,
                         num_vertices + Len(LoopsOfVertex(loops, i)))
vert_map(mesh) == NumberedFrom(Loops(mesh), Len(mesh.vertices), 0, 0)

\* vert = { "xyz": ..., "st": ..., "normal": ... } of vertex v and the UV of a loop
Vert(v, uv) ==
    [xyz |-> <<PyFloat(v.co[1] * scale_to_game), PyFloat(v.co[2] * scale_to_game),
               PyFloat(v.co[3] * scale_to_game)>>,
     st |-> <<PyFloat(uv[1]), PyFloat(uv[2])>>,
     normal |-> <<PyFloat(v.normal[1]), PyFloat(v.normal[2]), PyFloat(v.normal[3])>>]

\* prim["verts"]: for each vertex, one vert for each entry of its vert_map list
RECURSIVE VertsFrom(_, _, _, _)
VertsFrom(vertices, loops, vm, i) ==
    IF i > Len(vertices) THEN <<>>
    ELSE [k \in 1..Len(vm[i]) |-> Vert(vertices[i], loops[vm[i][k][2] + 1].uv)]
         \o VertsFrom(vertices, loops, vm, i + 1)

\* The index of a corner, were it the first output vertex of the corner's source vertex.
NewIndexOfSourceVertex(loops, vm, l) == vm[loops[l + 1].vertex_index + 1][1][1]

\* next(x for x in vert_map[loop.vertex_index] if x[1] == loop.index)[0]
NewIndex(loops, vm, l) ==
    LET list == vm[loops[l + 1].vertex_index + 1]
    IN  list[CHOOSE k \in 1..Len(list) : list[k][2] = l][1]

\* prim["polygons"]
Polygons(material_slots, polygons, loops, vm) ==
    [i \in 1..Len(polygons) |->
        [material |-> PyStr(material_slots[polygons[i].material_index + 1]),
         indices |-> [k \in 1..Len(polygons[i].corners) |->
                         PyInt(NewIndex(loops, vm, LoopIndices(polygons, i)[k]))]]]

\* The primitive of the triangulated mesh.
Primitive(material_slots, mesh, index) ==
    [primitive |-> PyInt(index),
     verts |-> VertsFrom(mesh.vertices, Loops(mesh), vert_map(mesh), 1),
     polygons |-> Polygons(material_slots, mesh.polygons, Loops(mesh), vert_map(mesh))]

\* ExportMap.create_primitive
create_primitive(obj, index) ==
    Primitive(obj.material_slots,
              quads_convert_to_tris(transform(to_mesh(obj), obj.matrix_world)), index)

\* Euler((x, y, z), 'XYZ').to_matrix() for angles of whole quarter turns, row by row
Cos4(q) == IF q % 4 = 0 THEN 1 ELSE IF q % 4 = 2 THEN 0 - 1 ELSE 0
Sin4(q) == IF q % 4 = 1 THEN 1 ELSE IF q % 4 = 3 THEN 0 - 1 ELSE 0
EulerToMatrix(x, y, z) ==
    << << Cos4(y) * Cos4(z),
          Sin4(y) * Sin4(x) * Cos4(z) - Cos4(x) * Sin4(z),
          Sin4(y) * Cos4(x) * Cos4(z) + Sin4(x) * Sin4(z) >>,
       << Cos4(y) * Sin4(z),
          Sin4(y) * Sin4(x) * Sin4(z) + Cos4(x) * Cos4(z),
          Sin4(y) * Cos4(x) * Sin4(z) - Sin4(x) * Cos4(z) >>,
       << 0 - Sin4(y),
          Cos4(y) * Sin4(x),
          Cos4(y) * Cos4(x) >> >>

\* math.degrees of an angle of q quarter turns, in millionths
degrees(q) == 90 * q * Million

\* "%s %s %s" % (ftos(x * _scale_to_game), ...) for a vector of floats
ScaledTriple(v) ==
    JoinSpace(<<ftos(Num(v[1] * scale_to_game)), ftos(Num(v[2] * scale_to_game)),
                ftos(Num(v[3] * scale_to_game))>>)

\* The nine entries of the matrix, row by row, each through ftos.
RotationString(rot) ==
    JoinSpace(<<ftos(Num(rot[1][1] * Million)), ftos(Num(rot[1][2] * Million)),
                ftos(Num(rot[1][3] * Million)),
                ftos(Num(rot[2][1] * Million)), ftos(Num(rot[2][2] * Million)),
                ftos(Num(rot[2][3] * Million)),
                ftos(Num(rot[3][1] * Million)), ftos(Num(rot[3][2] * Million)),
                ftos(Num(rot[3][3] * Million))>>)

\* "%d" % 0 if flag else 1: the conditional expression binds weaker than %.
NoFlag(flag) == IF flag THEN PyStr(Decimal(0)) ELSE PyInt(1)

\* The keys every entity of the scene gets.
EntityHead(obj, entity_index) ==
    [entity |-> PyInt(entity_index),
     classname |-> PyStr(IF obj.type = "LAMP" THEN kw_light ELSE obj.classname),
     name |-> PyStr(obj.name),
     origin |-> PyStr(ScaledTriple(obj.location))]

EntityAngle(obj) ==
    IF obj.rotation_euler[3] # 0
    THEN [angle |-> PyStr(ftos(Num(degrees(obj.rotation_euler[3]))))]
    ELSE <<>>

StaticModelKeys(obj) ==
    [model |-> PyStr(Replace(obj.entity_model, "\\", "/")),
     rotation |-> PyStr(RotationString(EulerToMatrix(0 - obj.rotation_euler[1],
                                                     0 - obj.rotation_euler[2],
                                                     0 - obj.rotation_euler[3])))]

LampTexture(obj) ==
    IF obj.light_material # kw_default THEN [texture |-> PyStr(obj.light_material)] ELSE <<>>

LampKeys(obj) ==
    ("light_center" :> PyStr(<<"0", " ", "0", " ", "0">>))
    @@ ("light_radius" :> PyStr(JoinSpace(<<ftos(Num(obj.data.distance * scale_to_game)),
                                            ftos(Num(obj.data.distance * scale_to_game)),
                                            ftos(Num(obj.data.distance * scale_to_game))>>)))
    @@ ("_color" :> PyStr(JoinSpace(<<ftos(Num(obj.data.color[1])), ftos(Num(obj.data.color[2])),
                                      ftos(Num(obj.data.color[3]))>>)))
    @@ ("nospecular" :> NoFlag(obj.data.use_specular))
    @@ ("nodiffuse" :> NoFlag(obj.data.use_diffuse))
    @@ LampTexture(obj)

\* The entity of an object of the scene that is exported.
Entity(obj, entity_index) ==
    EntityHead(obj, entity_index)
    @@ (IF obj.bfg_type = "ENTITY" THEN EntityAngle(obj)
        ELSE IF obj.bfg_type = "STATIC_MODEL" THEN StaticModelKeys(obj)
        ELSE IF obj.type = "LAMP" THEN LampKeys(obj)
        ELSE <<>>)

\* obj.bfg.type == 'ENTITY' or obj.bfg.type == 'STATIC_MODEL' or obj.type == 'LAMP'
IsExported(obj) == obj.bfg_type = "ENTITY" \/ obj.bfg_type = "STATIC_MODEL" \/ obj.type = "LAMP"

\* entity_index after an object: counted up for every object, exported or not
EntityIndexAfterAny(obj, entity_index) == entity_index + 1

\* entity_index after an object: counted up when the object was exported
EntityIndexAfter(obj, entity_index) ==
    IF IsExported(obj) THEN entity_index + 1 ELSE entity_index

\* for obj in context.scene.objects: ...
RECURSIVE EntitiesFrom(_, _, _)
EntitiesFrom(objects, i, entity_index) ==
    IF i > Len(objects) THEN <<>>
    ELSE (IF IsExported(objects[i]) THEN <<Entity(objects[i], entity_index)>> ELSE <<>>)
         \o EntitiesFrom(objects, i + 1, EntityIndexAfter(objects[i], entity_index))

\* The worldspawn entity: one primitive for each object of the group.
Worldspawn(objects) ==
    [entity |-> PyInt(0),
     classname |-> PyStr(kw_worldspawn),
     primitives |-> [i \in 1..Len(objects) |-> create_primitive(objects[i], i - 1)]]

\* data of ExportMap.execute
Document(worldspawn_objects, objects) ==
    [version |-> PyInt(3),
     entities |-> <<Worldspawn(worldspawn_objects)>> \o EntitiesFrom(objects, 1, 1)]

\* The file at self.filepath: absent, or what json.dump wrote with which indent.
NoFile == [exists |-> FALSE, indent |-> FALSE, data |-> [version |-> PyInt(0), entities |-> <<>>]]
Written(indent, data) == [exists |-> TRUE, indent |-> indent, data |-> data]

\* The file after execute, were the file opened for writing before the group is looked for.
FileAfterExecuteOpenedFirst(grps, objects, indent, old) ==
    IF Contains(grps, kw_worldspawn)
    THEN Written(indent, Document(grps[IndexOf(grps, kw_worldspawn)].objects, objects))
    ELSE Written(indent, NoFile.data)

\* The file after execute: written when the worldspawn group exists.
FileAfterExecute(grps, objects, indent, old) ==
    IF Contains(grps, kw_worldspawn)
    THEN Written(indent, Document(grps[IndexOf(grps, kw_worldspawn)].objects, objects))
    ELSE old

ExportIdle(indent) == [pc |-> "idle", indent |-> indent, report |-> <<>>, built |-> 0]

\* The exporter is not part of the run.
ExportUnused ==
    /\ groups = <<>>
    /\ scene_objects = <<>>
    /\ map_file = NoFile
    /\ export = ExportIdle(FALSE)

(***************************************************************************)
(* IMPORT: ImportMaterials.execute / ImportEntities.execute, which hand     *)
(* parse_material_file / parse_def_file to FileSystem.for_each_file.       *)
(* A file of the disk is [base, ext, data]; the glob patterns               *)
(* materials\*.mtr and def\*.def select the files by ext.                  *)
(***************************************************************************)
Pattern(kind) == IF kind = "materials" THEN "mtr" ELSE "def"

OperatorIdle ==
    [pc |-> "idle", kind |-> "materials", dir |-> 1, idx |-> 1, touched |-> <<>>,
     num_created |-> 0, num_updated |-> 0, runs |-> 0, report |-> <<>>]

\* ImportMaterials.execute / ImportEntities.execute are invoked. With game_path
\* set, the counters are zeroed and for_each_file starts with no file touched;
\* without, the operator reports an error and is finished.
Execute(kind) ==
    /\ op.pc \in { "idle", "crashed" }
    /\ op.runs < MaxRuns
    /\ op' = IF game_path
             THEN [op EXCEPT !.pc = "loop", !.kind = kind, !.dir = 1, !.idx = 1,
                             !.touched = <<>>, !.num_created = 0, !.num_updated = 0,
                             !.runs = @ + 1, !.report = <<>>]
             ELSE [op EXCEPT !.pc = "idle", !.kind = kind, !.runs = @ + 1,
                             !.report = <<"ERROR">>]
    /\ UNCHANGED <<lexVars, game_path, disk, material_decls, material_decl_paths, entities, imp, results, steps,
                 exportVars, ftosVars>>

\* The membership test, were no basename ever found among the touched files.
InSeqNever(x, sq) == FALSE

\* if not base in touched_files
InSeq(x, sq) == \E i \in 1..Len(sq) : sq[i] = x

\* One step of the loops of FileSystem.for_each_file: the next file of the next
\* search directory, handed to the callback unless its basename was touched;
\* after the last directory, the rest of execute.
ForEachFile ==
    /\ op.pc = "loop"
    /\ IF op.dir > Len(disk)
       THEN /\ op' = [op EXCEPT !.pc = "idle",
                                !.report = <<"INFO", op.num_created, op.num_updated>>]
            /\ material_decl_paths' = IF op.kind = "materials"
                                      THEN update_material_decl_paths(material_decls)
                                      ELSE material_decl_paths
            /\ UNCHANGED <<lex, imp, steps>>
       ELSE IF op.idx > Len(disk[op.dir])
       THEN /\ op' = [op EXCEPT !.dir = @ + 1, !.idx = 1]
            /\ UNCHANGED <<lex, imp, material_decl_paths, steps>>
       ELSE LET file == disk[op.dir][op.idx]
            IN  IF file.ext # Pattern(op.kind) \/ InSeq(file.base, op.touched)
                THEN /\ op' = [op EXCEPT !.idx = @ + 1]
                     /\ UNCHANGED <<lex, imp, material_decl_paths, steps>>
                ELSE /\ op' = [op EXCEPT !.pc = "parsing",
                                         !.touched = Append(@, file.base)]
                     /\ lex' = NewLexer(file.data)
                     /\ imp' = ParseLocals
                     /\ steps' = <<>>
                     /\ UNCHANGED material_decl_paths
    /\ UNCHANGED <<calls, game_path, disk, material_decls, entities, results,
                 exportVars, ftosVars>>

Parsing(kind, pc) == op.pc = "parsing" /\ op.kind = kind /\ imp.pc = pc

\* The assignments of a step n of a parse function to the lexer, the locals and
\* the collection (or the item of it) the step works on.
StepOfMaterials(n) == lex' = n.lex /\ imp' = n.f /\ material_decls' = n.decls
StepOfEntities(n) == lex' = n.lex /\ imp' = n.f /\ entities' = n.decls
StepOfLocals(n) == lex' = n.lex /\ imp' = n.f
StepOfMaterial(n) ==
    lex' = n.lex /\ imp' = n.f /\ material_decls' = [material_decls EXCEPT ![imp.decl] = n.decl]
StepOfEntity(n) ==
    lex' = n.lex /\ imp' = n.f /\ entities' = [entities EXCEPT ![imp.decl] = n.decl]

\* The record of an iteration of a body loop: its token r and the locals it
\* began with. An iteration that leaves the lexer where it was repeats for ever
\* and is recorded once.
Noted(r) ==
    steps' = IF lex' = lex /\ steps # <<>> /\ steps[Len(steps)].pos = lex.pos
             THEN steps
             ELSE Append(steps, [token |-> TokenOf(r), pos |-> lex.pos,
                                 depth |-> imp.num_required_closing,
                                 in_stage |-> imp.in_stage,
                                 stage_blend |-> imp.stage_blend,
                                 stage_texture |-> imp.stage_texture])

MatTop ==
    /\ Parsing("materials", "top")
    /\ StepOfMaterials(MatTopIteration(lex, imp, material_decls))
    /\ steps' = IF imp'.pc = "open" THEN <<>> ELSE steps
    /\ UNCHANGED <<calls, game_path, disk, material_decl_paths, entities, op, results,
                 exportVars, ftosVars>>

MatOpen ==
    /\ Parsing("materials", "open")
    /\ StepOfLocals(OpenBody(lex, imp))
    /\ UNCHANGED <<calls, game_path, disk, material_decls, material_decl_paths, entities, op, results, steps,
                 exportVars, ftosVars>>

MatBody ==
    /\ Parsing("materials", "body")
    /\ StepOfMaterial(MatBodyIteration(lex, imp, material_decls[imp.decl]))
    /\ Noted(parse_token(lex))
    /\ UNCHANGED <<calls, game_path, disk, material_decl_paths, entities, op, results,
                 exportVars, ftosVars>>

EntTop ==
    /\ Parsing("entities", "top")
    /\ StepOfEntities(EntTopIteration(lex, imp, entities))
    /\ steps' = IF imp'.pc = "open" THEN <<>> ELSE steps
    /\ UNCHANGED <<calls, game_path, disk, material_decls, material_decl_paths, op, results,
                 exportVars, ftosVars>>

EntOpen ==
    /\ Parsing("entities", "open")
    /\ StepOfLocals(OpenBody(lex, imp))
    /\ UNCHANGED <<calls, game_path, disk, material_decls, material_decl_paths, entities, op, results, steps,
                 exportVars, ftosVars>>

EntBody ==
    /\ Parsing("entities", "body")
    /\ StepOfEntity(EntBodyIteration(lex, imp, entities[imp.decl]))
    /\ Noted(parse_token(lex))
    /\ UNCHANGED <<calls, game_path, disk, material_decls, material_decl_paths, op, results,
                 exportVars, ftosVars>>

\* What a parse_*_file call gave: the file, the tuple returned or the exception raised.
Result(err) ==
    [run |-> op.runs, kind |-> op.kind, dir |-> op.dir, idx |-> op.idx,
     created |-> imp.num_created, updated |-> imp.num_updated, err |-> err]

\* return (num_created, num_updated), and the callback adds them to the operator's counters.
ParseReturn ==
    /\ op.pc = "parsing" /\ imp.pc = "done"
    /\ op' = [op EXCEPT !.pc = "loop", !.idx = @ + 1,
                        !.num_created = @ + imp.num_created,
                        !.num_updated = @ + imp.num_updated]
    /\ imp' = [imp EXCEPT !.pc = "returned"]
    /\ results' = Append(results, Result(""))
    /\ UNCHANGED <<lexVars, game_path, disk, material_decls, material_decl_paths, entities, steps,
                 exportVars, ftosVars>>

\* An exception leaves parse_*_file, the callback, for_each_file and execute:
\* nothing catches it.
ParseRaise ==
    /\ op.pc = "parsing" /\ imp.pc = "error"
    /\ op' = [op EXCEPT !.pc = "crashed"]
    /\ imp' = [imp EXCEPT !.pc = "raised"]
    /\ results' = Append(results, Result(imp.err))
    /\ UNCHANGED <<lexVars, game_path, disk, material_decls, material_decl_paths, entities, steps,
                 exportVars, ftosVars>>

ImportNext ==
    \/ \E kind \in { "materials", "entities" } : Execute(kind)
    \/ ForEachFile
    \/ MatTop \/ MatOpen \/ MatBody
    \/ EntTop \/ EntOpen \/ EntBody
    \/ ParseReturn \/ ParseRaise

\* The import state of a fresh scene with the files of `disk` unread.
ImportStart ==
    /\ material_decls = <<>>
    /\ material_decl_paths = <<>>
    /\ entities = <<>>
    /\ op = OperatorIdle
    /\ imp = [ParseLocals EXCEPT !.pc = "idle"]
    /\ results = <<>>
    /\ steps = <<>>

\* The importers are not part of the run.
ImportUnused == game_path = FALSE /\ disk = <<>> /\ ImportStart

(***************************************************************************)
(* The files of the import runs: up to MaxPieces pieces of declaration      *)
(* text, one per line.                                                     *)
(***************************************************************************)
MatPieces == {
    \* m {
    <<"m", " ", "{">>,
    \* material n {
    <<"m", "a", "t", "e", "r", "i", "a", "l", " ", "n", " ", "{">>,
    \* }
    <<"}">>,
    \* m { { blend diffusemap map t }
    <<"m", " ", "{", " ", "{", " ", "b", "l", "e", "n", "d", " ", "d", "i", "f", "f", "u", "s", "e", "m", "a", "p", " ", "m", "a", "p", " ", "t", " ", "}">>,
    \* { blend Diffusemap map u }
    <<"{", " ", "b", "l", "e", "n", "d", " ", "D", "i", "f", "f", "u", "s", "e", "m", "a", "p", " ", "m", "a", "p", " ", "u", " ", "}">>,
    \* { blend bumpmap map heightmap ( t , 2 ) }
    <<"{", " ", "b", "l", "e", "n", "d", " ", "b", "u", "m", "p", "m", "a", "p", " ", "m", "a", "p", " ", "h", "e", "i", "g", "h", "t", "m", "a", "p", " ", "(", " ", "t", " ", ",", " ", "2", " ", ")", " ", "}">>,
    \* { map v }
    <<"{", " ", "m", "a", "p", " ", "v", " ", "}">>,
    \* diffusemap w }
    <<"d", "i", "f", "f", "u", "s", "e", "m", "a", "p", " ", "w", " ", "}">>,
    \* bumpmap t
    <<"b", "u", "m", "p", "m", "a", "p", " ", "t">>,
    \* bumpmap
    <<"b", "u", "m", "p", "m", "a", "p">>,
    \* table x { { } }
    <<"t", "a", "b", "l", "e", " ", "x", " ", "{", " ", "{", " ", "}", " ", "}">> }

EntPieces == {
    \* entityDef e {
    <<"e", "n", "t", "i", "t", "y", "D", "e", "f", " ", "e", " ", "{">>,
    \* entityDef e { }
    <<"e", "n", "t", "i", "t", "y", "D", "e", "f", " ", "e", " ", "{", " ", "}">>,
    \* }
    <<"}">>,
    \* "editor_color" "1 0" editor_mins a editor_maxs b editor_usage "u" }
    <<"\"", "e", "d", "i", "t", "o", "r", "_", "c", "o", "l", "o", "r", "\"", " ", "\"", "1", " ", "0", "\"", " ", "e", "d", "i", "t", "o", "r", "_", "m", "i", "n", "s", " ", "a", " ", "e", "d", "i", "t", "o", "r", "_", "m", "a", "x", "s", " ", "b", " ", "e", "d", "i", "t", "o", "r", "_", "u", "s", "a", "g", "e", " ", "\"", "u", "\"", " ", "}">>,
    \* { editor_mins k }
    <<"{", " ", "e", "d", "i", "t", "o", "r", "_", "m", "i", "n", "s", " ", "k", " ", "}">>,
    \* model x { }
    <<"m", "o", "d", "e", "l", " ", "x", " ", "{", " ", "}">> }

\* The sequences over S of length at most n.
RECURSIVE SeqsUpTo(_, _)
SeqsUpTo(S, n) ==
    IF n = 0 THEN { <<>> }
    ELSE LET shorter == SeqsUpTo(S, n - 1)
         IN  shorter \cup { Append(s, c) : s \in { t \in shorter : Len(t) = n - 1 }, c \in S }

RECURSIVE Lines(_)
Lines(ps) == IF ps = <<>> THEN <<>>
             ELSE IF Len(ps) = 1 THEN ps[1]
             ELSE ps[1] \o <<"\n">> \o Lines(Tail(ps))

Texts(pieces) == { Lines(ps) : ps \in SeqsUpTo(pieces, MaxPieces) }

OneFile(ext, data) == << << [base |-> "a", ext |-> ext, data |-> data] >> >>

ImportInit ==
    /\ disk \in { OneFile("mtr", d) : d \in Texts(MatPieces) }
                 \cup { OneFile("def", d) : d \in Texts(EntPieces) }
    /\ game_path \in (IF Len(disk[1][1].data) <= 1 THEN BOOLEAN ELSE { TRUE })
    /\ ImportStart
    /\ lex = NewLexer(<<>>)
    /\ calls = <<>>
    /\ ExportUnused /\ FtosUnused

SpecImport == ImportInit /\ [][ImportNext]_vars

(***************************************************************************)
(* The disks of the batch runs: the three search directories (mod          *)
(* directory, basedev, base) with up to MaxBatchFiles files between them;  *)
(* a directory lists a basename once, in any order. A search directory     *)
(* that does not exist lists nothing.                                      *)
(***************************************************************************)
MaxBatchFiles == 3

BatchBases == { "a", "b" }

BatchMatTexts == {
    \* X { }
    <<"X", " ", "{", " ", "}">>,
    \* x { } X { }
    <<"x", " ", "{", " ", "}", " ", "X", " ", "{", " ", "}">>,
    \* Z "
    <<"Z", " ", "\"">> }

BatchEntTexts == {
    \* entityDef E { }
    <<"e", "n", "t", "i", "t", "y", "D", "e", "f", " ", "E", " ", "{", " ", "}">>,
    \* entityDef F { } entityDef E { }
    <<"e", "n", "t", "i", "t", "y", "D", "e", "f", " ", "F", " ", "{", " ", "}", " ",
      "e", "n", "t", "i", "t", "y", "D", "e", "f", " ", "E", " ", "{", " ", "}">>,
    \* entityDef G "
    <<"e", "n", "t", "i", "t", "y", "D", "e", "f", " ", "G", " ", "\"">> }

\* The names the batch texts declare.
BatchNames == { <<"X">>, <<"x">>, <<"Z">>, <<"E">>, <<"F">>, <<"G">> }

BatchFiles(ext, texts) == { [base |-> b, ext |-> ext, data |-> d] : b \in BatchBases, d \in texts }

Listings(files) ==
    { l \in SeqsUpTo(files, Cardinality(BatchBases)) :
        \A i, j \in 1..Len(l) : i < j => l[i].base # l[j].base }

BatchDisks(files) ==
    { search_dirs \in Listings(files) \X Listings(files) \X Listings(files) :
        Len(search_dirs[1]) + Len(search_dirs[2]) + Len(search_dirs[3]) <= MaxBatchFiles }

BatchInit ==
    /\ disk \in BatchDisks(BatchFiles("mtr", BatchMatTexts))
                 \cup BatchDisks(BatchFiles("def", BatchEntTexts))
    /\ game_path = TRUE
    /\ ImportStart
    /\ lex = NewLexer(<<>>)
    /\ calls = <<>>
    /\ ExportUnused /\ FtosUnused

SpecBatch == BatchInit /\ [][ImportNext]_vars

(***************************************************************************)
(* The files of the nested runs: bodies with stages of every blend kind    *)
(* and with blocks nested inside stages and inside entity bodies.          *)
(***************************************************************************)
DeepMatPieces == {
    \* m {
    <<"m", " ", "{">>,
    \* { blend add map v }
    <<"{", " ", "b", "l", "e", "n", "d", " ", "a", "d", "d", " ", "m", "a", "p", " ", "v", " ", "}">>,
    \* { map u }
    <<"{", " ", "m", "a", "p", " ", "u", " ", "}">>,
    \* { blend Diffusemap map t { blend bumpmap map z } }
    <<"{", " ", "b", "l", "e", "n", "d", " ", "D", "i", "f", "f", "u", "s", "e", "m", "a", "p", " ", "m", "a", "p", " ", "t", " ",
      "{", " ", "b", "l", "e", "n", "d", " ", "b", "u", "m", "p", "m", "a", "p", " ", "m", "a", "p", " ", "z", " ", "}", " ", "}">>,
    \* { blend specularmap map s }
    <<"{", " ", "b", "l", "e", "n", "d", " ", "s", "p", "e", "c", "u", "l", "a", "r", "m", "a", "p", " ", "m", "a", "p", " ", "s", " ", "}">>,
    \* particle p { m { diffusemap w } }
    <<"p", "a", "r", "t", "i", "c", "l", "e", " ", "p", " ", "{", " ", "m", " ", "{", " ",
      "d", "i", "f", "f", "u", "s", "e", "m", "a", "p", " ", "w", " ", "}", " ", "}">>,
    \* }
    <<"}">> }

DeepEntPieces == {
    \* model x { entityDef f { editor_mins k } }
    <<"m", "o", "d", "e", "l", " ", "x", " ", "{", " ", "e", "n", "t", "i", "t", "y", "D", "e", "f", " ", "f", " ", "{", " ",
      "e", "d", "i", "t", "o", "r", "_", "m", "i", "n", "s", " ", "k", " ", "}", " ", "}">>,
    \* entityDef e {
    <<"e", "n", "t", "i", "t", "y", "D", "e", "f", " ", "e", " ", "{">>,
    \* editor_mins a { editor_mins k { editor_usage j } }
    <<"e", "d", "i", "t", "o", "r", "_", "m", "i", "n", "s", " ", "a", " ",
      "{", " ", "e", "d", "i", "t", "o", "r", "_", "m", "i", "n", "s", " ", "k", " ",
      "{", " ", "e", "d", "i", "t", "o", "r", "_", "u", "s", "a", "g", "e", " ", "j", " ", "}", " ", "}">>,
    \* editor_maxs b }
    <<"e", "d", "i", "t", "o", "r", "_", "m", "a", "x", "s", " ", "b", " ", "}">> }

DeepInit ==
    /\ disk \in { OneFile("mtr", d) : d \in Texts(DeepMatPieces) }
                 \cup { OneFile("def", d) : d \in Texts(DeepEntPieces) }
    /\ game_path = TRUE
    /\ ImportStart
    /\ lex = NewLexer(<<>>)
    /\ calls = <<>>
    /\ ExportUnused /\ FtosUnused

SpecDeep == DeepInit /\ [][ImportNext]_vars

(***************************************************************************)
(* The files of the override runs: the search directories of the batch     *)
(* runs, with files that declare one name with different properties.       *)
(***************************************************************************)
OverrideMatTexts == {
    \* X { diffusemap p specularmap s }
    <<"X", " ", "{", " ", "d", "i", "f", "f", "u", "s", "e", "m", "a", "p", " ", "p", " ", "s", "p", "e", "c", "u", "l", "a", "r", "m", "a", "p", " ", "s", " ", "}">>,
    \* X { diffusemap q }
    <<"X", " ", "{", " ", "d", "i", "f", "f", "u", "s", "e", "m", "a", "p", " ", "q", " ", "}">>,
    \* X }
    <<"X", " ", "}">>,
    \* Z, on a second line
    <<"\n", "Z">> }

OverrideEntTexts == {
    \* entityDef E { editor_usage p editor_mins m }
    <<"e", "n", "t", "i", "t", "y", "D", "e", "f", " ", "E", " ", "{", " ", "e", "d", "i", "t", "o", "r", "_", "u", "s", "a", "g", "e", " ", "p", " ", "e", "d", "i", "t", "o", "r", "_", "m", "i", "n", "s", " ", "m", " ", "}">>,
    \* entityDef E { editor_usage q }
    <<"e", "n", "t", "i", "t", "y", "D", "e", "f", " ", "E", " ", "{", " ", "e", "d", "i", "t", "o", "r", "_", "u", "s", "a", "g", "e", " ", "q", " ", "}">>,
    \* entityDef E }
    <<"e", "n", "t", "i", "t", "y", "D", "e", "f", " ", "E", " ", "}">>,
    \* entityDef G, the name on a second line
    <<"e", "n", "t", "i", "t", "y", "D", "e", "f", "\n", "G">> }

OverrideInit ==
    /\ disk \in BatchDisks(BatchFiles("mtr", OverrideMatTexts))
                 \cup BatchDisks(BatchFiles("def", OverrideEntTexts))
    /\ game_path = TRUE
    /\ ImportStart
    /\ lex = NewLexer(<<>>)
    /\ calls = <<>>
    /\ ExportUnused /\ FtosUnused

SpecOverride == OverrideInit /\ [][ImportNext]_vars

(***************************************************************************)
(* Properties of the importers.                                            *)
(***************************************************************************)
SameFile(a, b) == a.kind = b.kind /\ a.dir = b.dir /\ a.idx = b.idx

\* C3: when a file of the (unchanged) disk is imported again into the same
\* collection and both passes return, the later pass returns created = 0 and
\* updated = the number of declarations the earlier pass parsed from the file
\* (those it created plus those it updated).
C3_ReimportUpdatesAll ==
    \A i, j \in 1..Len(results) :
        (i < j /\ SameFile(results[i], results[j])
               /\ results[i].err = "" /\ results[j].err = "")
        => /\ results[j].created = 0
           /\ results[j].updated = results[i].created + results[i].updated

\* C3 witness: a material file that declares one name twice was imported twice;
\* the second pass returned (0, 2).
C3_Witness ==
    /\ Len(results) = 2
    /\ SameFile(results[1], results[2])
    /\ results[1].kind = "materials"
    /\ results[1].err = "" /\ results[1].created = 1 /\ results[1].updated = 1
    /\ results[2].err = "" /\ results[2].created = 0 /\ results[2].updated = 2

\* The typed field a recognized blend kind is written to.
RecognizedKinds == { kw_bumpmap, kw_diffusemap, kw_specularmap }
TypedField(kind) ==
    IF kind = kw_bumpmap THEN "normal_texture"
    ELSE IF kind = kw_diffusemap THEN "diffuse_texture"
    ELSE "specular_texture"

\* Iteration k of the body loop closed a stage whose blend kind is `kind` and
\* which captured a texture.
StageOfKind(k, kind) ==
    /\ steps[k].token = <<"}">> /\ steps[k].depth = 2
    /\ Truthy(steps[k].stage_blend) /\ Truthy(steps[k].stage_texture)
    /\ lower(steps[k].stage_blend) = kind

\* Iteration k of the body loop read the decl-body keyword `kind`.
KeywordOfKind(k, kind) == ~steps[k].in_stage /\ lower(steps[k].token) = kind

Greatest(S) == CHOOSE m \in S : \A n \in S : n <= m

\* The body loop of the current decl has ended at its closing brace.
DeclParsed ==
    /\ imp.pc \in { "top", "done" }
    /\ steps # <<>>
    /\ steps[Len(steps)].token = <<"}">> /\ steps[Len(steps)].depth = 1

\* C4 as stated: after a material decl with several stages of one recognized
\* kind, each with a texture, is parsed, the typed field of that kind holds the
\* texture of the last of these stages.
C4_Original ==
    (op.pc = "parsing" /\ op.kind = "materials" /\ DeclParsed)
    => \A kind \in RecognizedKinds :
          LET S == { k \in 1..Len(steps) : StageOfKind(k, kind) }
          IN  Cardinality(S) >= 2
              => material_decls[imp.decl][TypedField(kind)] = steps[Greatest(S)].stage_texture

\* C4 amended: while and after a material decl is parsed, once several stages of
\* one recognized kind, each with a texture, are closed, the typed field of that
\* kind holds the texture of the last of these stages, unless the decl-body
\* keyword of that kind (diffusemap, bumpmap, specularmap) was read after it.
C4_LastStageWins ==
    (op.pc = "parsing" /\ op.kind = "materials" /\ steps # <<>>)
    => \A kind \in RecognizedKinds :
          LET S == { k \in 1..Len(steps) : StageOfKind(k, kind) }
          IN  (/\ Cardinality(S) >= 2
               /\ \A k \in 1..Len(steps) : KeywordOfKind(k, kind) => k < Greatest(S))
              => material_decls[imp.decl][TypedField(kind)] = steps[Greatest(S)].stage_texture

\* C4 witness: two diffusemap stages, with textures t and then u, and the decl
\* closed: diffuse_texture is u.
C4_Witness ==
    /\ op.pc = "parsing" /\ op.kind = "materials" /\ DeclParsed
    /\ LET S == { k \in 1..Len(steps) : StageOfKind(k, kw_diffusemap) }
       IN  /\ Cardinality(S) = 2
           /\ steps[Least(S)].stage_texture = <<"t">>
           /\ steps[Greatest(S)].stage_texture = <<"u">>
    /\ material_decls[imp.decl].diffuse_texture = <<"u">>

HasDefaults(entity) ==
    /\ entity.color = default_color
    /\ entity.mins = <<>> /\ entity.maxs = <<>> /\ entity.usage = <<>>

\* C5: when parse_def_file has met entityDef <name>, new or not, and is about to
\* read the opening brace, color, mins, maxs and usage of the entity hold the
\* defaults; and when the body then turns out empty, they hold the defaults
\* after the declaration.
C5_EntityResetOnDeclaration ==
    (op.pc = "parsing" /\ op.kind = "entities")
    => /\ imp.pc = "open" => HasDefaults(entities[imp.decl])
       /\ (DeclParsed /\ Len(steps) = 1) => HasDefaults(entities[imp.decl])

\* C5 witness: entity e was declared with all four attributes and declared again
\* with an empty body in the same file; the file is parsed and e holds the defaults.
C5_Witness ==
    /\ op.pc = "parsing" /\ op.kind = "entities"
    /\ imp.pc = "done" /\ imp.num_created = 1 /\ imp.num_updated = 1
    /\ DeclParsed /\ Len(steps) = 1
    /\ lex.data = Lines(<< <<"e", "n", "t", "i", "t", "y", "D", "e", "f", " ", "e", " ", "{">>,
                          <<"\"", "e", "d", "i", "t", "o", "r", "_", "c", "o", "l", "o", "r", "\"", " ", "\"", "1", " ", "0", "\"", " ", "e", "d", "i", "t", "o", "r", "_", "m", "i", "n", "s", " ", "a", " ", "e", "d", "i", "t", "o", "r", "_", "m", "a", "x", "s", " ", "b", " ", "e", "d", "i", "t", "o", "r", "_", "u", "s", "a", "g", "e", " ", "\"", "u", "\"", " ", "}">>,
                          <<"e", "n", "t", "i", "t", "y", "D", "e", "f", " ", "e", " ", "{", " ", "}">> >>)
    /\ HasDefaults(entities[1])

\* C16: when the input of a material or entity file ends inside a body (the
\* brace depth above 0, the lexer at the end of the text), whatever token came
\* last, the scan has stopped without an exception for want of a token.
C16_LenientEndOfInput ==
    (/\ op.pc = "parsing"
     /\ imp.num_required_closing > 0
     /\ lex.pos = Len(lex.data))
    => ~(imp.pc = "error" /\ imp.err \in { "AttributeError", "TypeError" })

\* The body loop of parse_material_file is at the key bumpmap of the decl body
\* (outside any stage) and the token after it is a plain texture, not heightmap.
AtPlainDeclBumpmap(r, r2) ==
    /\ Parsing("materials", "body")
    /\ ~imp.in_stage
    /\ r.ret.err = "" /\ TokenOf(r) # None /\ lower(TokenOf(r)) = kw_bumpmap
    /\ r2.ret.err = "" /\ TokenOf(r2) # None /\ lower(TokenOf(r2)) # kw_heightmap

\* C17: heightmap_scale is 0 unless normal_texture was set from the form
\* heightmap(texture, scale): the step that overwrites normal_texture with the
\* plain texture of a bumpmap key of the decl body leaves heightmap_scale at 0.
C17_PlainBumpmapClearsScale ==
    [][AtPlainDeclBumpmap(parse_token(lex), parse_token(parse_token(lex).lex))
       => /\ material_decls'[imp.decl].normal_texture = TokenOf(parse_token(parse_token(lex).lex))
          /\ material_decls'[imp.decl].heightmap_scale = 0]_vars

\* The properties of a material decl.
MaterialFields ==
    { "name", "diffuse_texture", "editor_texture", "heightmap_scale", "normal_texture",
      "specular_texture", "texture" }

\* The properties a stage of the blend kind writes when it closes.
StageFields(blend) ==
    { "texture" }
    \cup (IF ~Truthy(blend) THEN {}
          ELSE IF lower(blend) = kw_bumpmap THEN { "normal_texture", "heightmap_scale" }
          ELSE IF lower(blend) = kw_diffusemap THEN { "diffuse_texture" }
          ELSE IF lower(blend) = kw_specularmap THEN { "specular_texture" }
          ELSE {})

\* The properties the key of the decl body writes.
KeyFields(token) ==
    IF lower(token) = kw_bumpmap THEN { "normal_texture", "heightmap_scale" }
    ELSE IF lower(token) = kw_diffusemap THEN { "diffuse_texture" }
    ELSE IF lower(token) = kw_qer_editorimage THEN { "editor_texture" }
    ELSE IF lower(token) = kw_specularmap THEN { "specular_texture" }
    ELSE {}

\* The properties the iteration of the body loop that reads token r may set.
ScannedFields(r) ==
    IF r.ret.err # "" \/ TokenOf(r) = None THEN {}
    ELSE IF TokenOf(r) = <<"}">>
         THEN IF imp.num_required_closing = 2 THEN StageFields(imp.stage_blend) ELSE {}
    ELSE IF imp.in_stage THEN {}
    ELSE KeyFields(TokenOf(r))

\* C20: importing a material name that exists works on its record field by
\* field: the declaration of the name resets nothing, and a step of the scan
\* changes only the properties that the key or the stage it has just read
\* sets, of the decl being scanned only; every other property of every record
\* keeps its value.
C20_MaterialFieldsKept ==
    [][\A i \in 1..Len(material_decls) :
           /\ Len(material_decls') >= i
           /\ \A field \in MaterialFields :
                  material_decls'[i][field] # material_decls[i][field]
                  => /\ Parsing("materials", "body")
                     /\ i = imp.decl
                     /\ field \in ScannedFields(parse_token(lex))]_vars

\* C20 witness: the second import of a file has declared m again and closed
\* its diffusemap stage: diffuse_texture went from w back to t, while
\* normal_texture, heightmap_scale and texture, which the scan has not come
\* to yet, still hold what the first import left.
C20_Witness ==
    /\ op.runs = 2 /\ Len(results) = 1 /\ results[1].err = ""
    /\ Parsing("materials", "body")
    /\ lex.data = Lines(<< <<"m", " ", "{", " ", "{", " ", "b", "l", "e", "n", "d", " ", "d", "i", "f", "f", "u", "s", "e", "m", "a", "p", " ", "m", "a", "p", " ", "t", " ", "}">>,
                          <<"{", " ", "b", "l", "e", "n", "d", " ", "b", "u", "m", "p", "m", "a", "p", " ", "m", "a", "p", " ", "h", "e", "i", "g", "h", "t", "m", "a", "p", " ", "(", " ", "t", " ", ",", " ", "2", " ", ")", " ", "}">>,
                          <<"d", "i", "f", "f", "u", "s", "e", "m", "a", "p", " ", "w", " ", "}">> >>)
    /\ imp.num_required_closing = 1 /\ Len(steps) = 4
    /\ material_decls[1].diffuse_texture = <<"t">>
    /\ material_decls[1].normal_texture = <<"t">>
    /\ material_decls[1].heightmap_scale = 2

\* The body loop of parse_material_file reads, as token r, the closing brace
\* that ends a stage which captured a texture.
AtStageClose(r) ==
    /\ Parsing("materials", "body")
    /\ r.ret.err = "" /\ TokenOf(r) = <<"}">>
    /\ imp.num_required_closing = 2
    /\ Truthy(imp.stage_texture)

\* The blend kind the stage captured is one of bumpmap, diffusemap, specularmap.
StageRecognized == Truthy(imp.stage_blend) /\ lower(imp.stage_blend) \in RecognizedKinds

\* C21: the step that leaves a stage which captured a texture writes the
\* texture to the decl's texture. With no blend kind or an unrecognized one it
\* leaves diffuse_texture, normal_texture, heightmap_scale and
\* specular_texture as they were; with a recognized kind (in any case of
\* letters) it writes the texture to the typed field of that kind (and, for
\* bumpmap, the scale of the stage to heightmap_scale) and leaves the typed
\* fields of the other kinds as they were.
C21_StageWritesTypedField ==
    [][AtStageClose(parse_token(lex))
       => LET old == material_decls[imp.decl]
              new == material_decls'[imp.decl]
          IN  /\ new.texture = imp.stage_texture
              /\ new.editor_texture = old.editor_texture
              /\ IF StageRecognized
                 THEN /\ new[TypedField(lower(imp.stage_blend))] = imp.stage_texture
                      /\ \A kind \in RecognizedKinds \ { lower(imp.stage_blend) } :
                             new[TypedField(kind)] = old[TypedField(kind)]
                      /\ new.heightmap_scale = IF lower(imp.stage_blend) = kw_bumpmap
                                               THEN imp.stage_heightmap_scale
                                               ELSE old.heightmap_scale
                 ELSE /\ new.diffuse_texture = old.diffuse_texture
                      /\ new.normal_texture = old.normal_texture
                      /\ new.heightmap_scale = old.heightmap_scale
                      /\ new.specular_texture = old.specular_texture]_vars

\* C21 witness: after a specularmap stage (s) a stage with the blend kind add
\* (v) was left: texture is v, specular_texture still s, no other typed field set.
C21_Witness ==
    /\ Parsing("materials", "body")
    /\ lex.data = Lines(<< <<"m", " ", "{">>,
                          <<"{", " ", "b", "l", "e", "n", "d", " ", "s", "p", "e", "c", "u", "l", "a", "r", "m", "a", "p", " ", "m", "a", "p", " ", "s", " ", "}">>,
                          <<"{", " ", "b", "l", "e", "n", "d", " ", "a", "d", "d", " ", "m", "a", "p", " ", "v", " ", "}">> >>)
    /\ lex.pos = Len(lex.data)
    /\ op.runs = 1
    /\ imp.num_required_closing = 1
    /\ material_decls[1].texture = <<"v">>
    /\ material_decls[1].specular_texture = <<"s">>
    /\ material_decls[1].diffuse_texture = <<>>
    /\ material_decls[1].normal_texture = <<>>

\* C22: in an entityDef body a step of the scan taken inside a nested block
\* (brace depth 2 or more) leaves the attributes of the entity as they are.
C22_EntityKeysAtDepthOne ==
    [][(Parsing("entities", "body") /\ imp.num_required_closing >= 2)
       => entities'[imp.decl] = entities[imp.decl]]_vars

\* C23: in a material body a step of the scan taken inside a block nested
\* within a stage (brace depth 3 or more) leaves the captured blend kind and
\* texture of the stage as they are, and a step that writes a property of the
\* decl for a decl keyword is taken at depth 1.
C23_StageKeysAtDepthTwo ==
    [][Parsing("materials", "body")
       => /\ imp.num_required_closing >= 3
              => /\ imp'.stage_blend = imp.stage_blend
                 /\ imp'.stage_texture = imp.stage_texture
          /\ (material_decls'[imp.decl] # material_decls[imp.decl]
              /\ TokenOf(parse_token(lex)) # <<"}">>)
              => imp.num_required_closing = 1]_vars

\* Opening minus closing braces at the positions from..to of the text.
Balance(data, from, to) ==
    Cardinality({ j \in from..to : CharAt(data, j) = "{" })
        - Cardinality({ j \in from..to : CharAt(data, j) = "}" })

\* The position just after the closing brace that brings the count to 0, the
\* count being `count` before position p; the end of the text if there is none.
SectionEnd(data, p, count) ==
    LET closes == { c \in p..(Len(data) - 1) : count + Balance(data, p, c) = 0 }
    IN  IF closes = {} THEN Len(data) ELSE Least(closes) + 1

\* The top-level loop of a parse function reads, as token r, the kind of a
\* declaration that is not parsed.
AtSkippedDecl(r) ==
    /\ op.pc = "parsing" /\ imp.pc = "top"
    /\ r.ret.err = "" /\ TokenOf(r) # None
    /\ IF op.kind = "materials" THEN TokenOf(r) \in { kw_particle, kw_skin, kw_table }
       ELSE TokenOf(r) # kw_entityDef

\* C24: the step of a top-level loop that meets a declaration that is not
\* parsed (particle, skin, table in a material file; anything but entityDef in
\* an entity file) leaves both tables and the counts as they are; unless it
\* raises, it consumes the name and leaves the lexer just after the closing
\* brace that matches the opening brace after the name (at the end of input if
\* there is none), at the top level again.
C24_SkippedDeclarations ==
    [][AtSkippedDecl(parse_token(lex))
       => /\ material_decls' = material_decls
          /\ entities' = entities
          /\ imp'.num_created = imp.num_created
          /\ imp'.num_updated = imp.num_updated
          /\ imp'.pc \in { "top", "error" }
          /\ imp'.pc = "top"
                 => LET name == parse_token(parse_token(lex).lex)
                        open == skip_whitespace(lex.data, name.lex.pos, name.lex.line).pos
                    IN  /\ CharAt(lex.data, open) = "{"
                        /\ lex'.pos = SectionEnd(lex.data, open + 1, 1)]_vars

\* C24 witness: the declaration particle p { m { diffusemap w } } was skipped:
\* the lexer is just after its last brace and no record exists.
C24_Witness ==
    /\ Parsing("materials", "top")
    /\ lex.data = Lines(<< <<"p", "a", "r", "t", "i", "c", "l", "e", " ", "p", " ", "{", " ", "m", " ", "{", " ",
                             "d", "i", "f", "f", "u", "s", "e", "m", "a", "p", " ", "w", " ", "}", " ", "}">>,
                          <<"m", " ", "{">> >>)
    /\ lex.pos = 33
    /\ op.runs = 1
    /\ material_decls = <<>>
    /\ imp.num_created = 0 /\ imp.num_updated = 0

IsBrace(token) == token = <<"{">> \/ token = <<"}">>

\* The braces of the text nest: no prefix closes more than it opened, and the
\* whole text closes all it opened.
Balanced(data) ==
    /\ Balance(data, 0, Len(data) - 1) = 0
    /\ \A j \in 0..(Len(data) - 1) : Balance(data, 0, j) >= 0

\* Every brace character of the body scanned so far was read as a token of
\* the body loop (none as the value of a key), iterations being the records
\* of the loop and pos the position reached.
BracesReadByLoop(iterations, pos) ==
    iterations # <<>>
    /\ Cardinality({ j \in iterations[1].pos..(pos - 1) : CharAt(lex.data, j) \in { "{", "}" } })
           = Cardinality({ k \in 1..Len(iterations) : IsBrace(iterations[k].token) })

\* C27 as stated, its last part: on an input whose braces are balanced the
\* body scan of every decl ends at depth 0.
C27_Original ==
    [][(Parsing("materials", "body") /\ imp'.pc = "top" /\ Balanced(lex.data))
       => imp'.num_required_closing = 0]_vars

\* C27: at the start of every iteration of the material body loop the depth
\* num_required_closing is at least 1 and in_stage is true exactly when it is
\* 2 or more; the depth is never negative; the loop is left for the top level
\* only by a closing brace that brings the depth to 0 or at the end of input
\* (or by an exception); and on an input of balanced braces a decl in which
\* every brace was read as a token of the loop ends at depth 0.
C27_DepthMachine ==
    /\ [](/\ imp.num_required_closing >= 0
          /\ Parsing("materials", "body")
                 => /\ imp.num_required_closing >= 1
                    /\ imp.in_stage <=> imp.num_required_closing >= 2)
    /\ [][Parsing("materials", "body")
          => /\ imp'.pc \in { "body", "top", "error", "hang" }
             /\ imp'.pc = "top"
                    => \/ /\ TokenOf(parse_token(lex)) = <<"}">>
                          /\ imp.num_required_closing = 1 /\ imp'.num_required_closing = 0
                       \/ /\ TokenOf(parse_token(lex)) = None
                          /\ lex'.pos = Len(lex.data)
                          /\ imp'.num_required_closing = imp.num_required_closing
             /\ (imp'.pc = "top" /\ Balanced(lex.data) /\ BracesReadByLoop(steps', lex'.pos))
                    => imp'.num_required_closing = 0]_vars

\* C27 witness: the decl m { { blend diffusemap map t } } was scanned through
\* its stage and ended at depth 0, at the top level again.
C27_Witness ==
    /\ Parsing("materials", "top")
    /\ lex.data = Lines(<< <<"m", " ", "{", " ", "{", " ", "b", "l", "e", "n", "d", " ", "d", "i", "f", "f", "u", "s", "e", "m", "a", "p", " ", "m", "a", "p", " ", "t", " ", "}">>,
                          <<"}">> >>)
    /\ lex.pos = Len(lex.data)
    /\ DeclParsed
    /\ Len(steps) = 5
    /\ imp.num_required_closing = 0 /\ ~imp.in_stage
    /\ material_decls[1].diffuse_texture = <<"t">>

(***************************************************************************)
(* Properties of for_each_file over the search directories.                *)
(***************************************************************************)
\* The file at place k of search directory d matches the pattern of the run
\* and a directory searched before d lists a file of the same basename.
Shadowed(d, k) ==
    /\ disk[d][k].ext = Pattern(op.kind)
    /\ \E e \in 1..(d - 1) : \E i \in 1..Len(disk[e]) :
           disk[e][i].base = disk[d][k].base /\ disk[e][i].ext = disk[d][k].ext

\* The results of the run of execute that is under way or was the last.
RunResults == SelectSeq(results, LAMBDA r : r.run = op.runs)

\* The name (one character in the batch texts) occurs in the text of the file.
Declares(file, name) == Len(name) = 1 /\ \E i \in 1..Len(file.data) : file.data[i] = name[1]

\* Some file of extension ext that no earlier search directory shadows declares the name.
DeclaredUnshadowed(ext, name) ==
    \E d \in 1..Len(disk) : \E k \in 1..Len(disk[d]) :
        /\ disk[d][k].ext = ext
        /\ Declares(disk[d][k], name)
        /\ ~\E e \in 1..(d - 1) : \E i \in 1..Len(disk[e]) :
               disk[e][i].base = disk[d][k].base /\ disk[e][i].ext = ext

\* C11: within one run for_each_file hands files to the callback in the order
\* of the search directories and at most once per basename; a file whose
\* basename an earlier directory lists is never handed to the callback, and
\* every record of the tables is declared by a file that is not so shadowed.
C11_OncePerBasename ==
    /\ \A i, j \in 1..Len(RunResults) :
           i < j => /\ RunResults[i].dir <= RunResults[j].dir
                    /\ disk[RunResults[i].dir][RunResults[i].idx].base
                           # disk[RunResults[j].dir][RunResults[j].idx].base
    /\ \A d \in 1..Len(disk) : \A k \in 1..Len(disk[d]) :
           (op.runs > 0 /\ Shadowed(d, k))
           => /\ ~\E i \in 1..Len(RunResults) : RunResults[i].dir = d /\ RunResults[i].idx = k
              /\ ~(op.pc = "parsing" /\ op.dir = d /\ op.idx = k)
    /\ \A i \in 1..Len(material_decls) : DeclaredUnshadowed("mtr", material_decls[i].name)
    /\ \A i \in 1..Len(entities) : DeclaredUnshadowed("def", entities[i].name)

\* C11 witness: the mod directory lists a.mtr (X), basedev lists a.mtr (Z, not
\* closed) and b.mtr (x and X); the run is over, a.mtr of basedev was passed
\* over, and only X and x are in the table.
C11_Witness ==
    /\ Len(disk[1]) = 1 /\ Len(disk[2]) = 2
    /\ disk[1][1].base = "a" /\ disk[2][1].base = "a" /\ disk[2][2].base = "b"
    /\ disk[2][1].data = <<"Z", " ", "\"">>
    /\ op.pc = "idle" /\ op.runs = 1 /\ op.kind = "materials"
    /\ Len(results) = 2
    /\ results[1].dir = 1 /\ results[2].dir = 2 /\ results[2].idx = 2
    /\ Len(material_decls) = 2
    /\ material_decls[1].name = <<"X">> /\ material_decls[2].name = <<"x">>

\* The file at place k of search directory d was handed to the callback in
\* the run of execute that is under way or was the last.
Processed(d, k) ==
    \E i \in 1..Len(RunResults) : RunResults[i].dir = d /\ RunResults[i].idx = k

\* C12: an error raised while one file of a batch is scanned aborts only that
\* file: once the operator is at rest, every file of the batch that matches
\* the pattern and is not shadowed has been handed to the callback, those
\* after the failing file included.
C12_ErrorAbortsOnlyFile ==
    (op.runs > 0 /\ op.pc \in { "idle", "crashed" })
    => \A d \in 1..Len(disk) : \A k \in 1..Len(disk[d]) :
           (disk[d][k].ext = Pattern(op.kind) /\ ~Shadowed(d, k)) => Processed(d, k)

\* No two records of the collection have the same name.
UniqueNames(coll) == \A i, j \in 1..Len(coll) : i # j => coll[i].name # coll[j].name

\* The records of old are at the same places in new, under the same names.
KeepsPlaces(old, new) ==
    /\ Len(new) >= Len(old)
    /\ \A i \in 1..Len(old) : new[i].name = old[i].name

\* The table of the kind has a record for each name the file declares.
HoldsNamesOf(file, coll) ==
    \A name \in BatchNames :
        Declares(file, name) => \E i \in 1..Len(coll) : coll[i].name = name

\* C18: no table ever holds two records of the same name, names that differ
\* only in case have a record each, and a step never moves or renames a record
\* that exists: a declaration of a known name works on the record in place and
\* a new name is appended.
C18_UniqueNamesInPlace ==
    /\ [](/\ UniqueNames(material_decls) /\ UniqueNames(entities)
          /\ \A i \in 1..Len(results) :
                 results[i].err = ""
                 => HoldsNamesOf(disk[results[i].dir][results[i].idx],
                                 IF results[i].kind = "materials" THEN material_decls
                                 ELSE entities))
    /\ [][KeepsPlaces(material_decls, material_decls') /\ KeepsPlaces(entities, entities')]_vars

\* C18 witness: a.mtr declares x and X, b.mtr declares X again; after the
\* second import the table still is x, X and the run updated three records.
C18_Witness ==
    /\ Len(disk[1]) = 1 /\ Len(disk[2]) = 1 /\ Len(disk[3]) = 0
    /\ disk[1][1].data = <<"x", " ", "{", " ", "}", " ", "X", " ", "{", " ", "}">>
    /\ disk[1][1].base = "a" /\ disk[2][1].base = "b"
    /\ disk[2][1].data = <<"X", " ", "{", " ", "}">>
    /\ op.pc = "idle" /\ op.runs = 2 /\ op.kind = "materials"
    /\ op.num_created = 0 /\ op.num_updated = 3
    /\ Len(results) = 4
    /\ Len(material_decls) = 2
    /\ material_decls[1].name = <<"x">> /\ material_decls[2].name = <<"X">>

(***************************************************************************)
(* The lexer on its own: any text over LexChars, and parse_token called    *)
(* again and again until it raises.                                        *)
(***************************************************************************)
LexChars == { "a", "/", "*", "\"", " ", "\n", "{", ";" }

LexInit ==
    /\ lex \in { NewLexer(d) : d \in SeqsUpTo(LexChars, MaxLen) }
    /\ calls = <<>>
    /\ ImportUnused /\ ExportUnused /\ FtosUnused

\* The lexer after a call that gave r, and the record of the call.
Called(r) ==
    /\ lex' = r.lex
    /\ calls' = Append(calls, [start |-> r.start, tok |-> r.ret.tok, none |-> r.ret.none,
                               err |-> r.ret.err, pos |-> r.ret.pos])

LexParseToken ==
    /\ Len(calls) < MaxCalls
    /\ IF calls = <<>> THEN TRUE ELSE calls[Len(calls)].err = ""
    /\ Called(parse_token(lex))
    /\ UNCHANGED <<importVars, exportVars, ftosVars>>

LexNext == LexParseToken

SpecLex == LexInit /\ [][LexNext]_vars

(***************************************************************************)
(* Lexer.skip_bracket_delimiter_section("{", "}") called on a text again   *)
(* and again, each call from where the one before returned.                *)
(***************************************************************************)
SkipChars == { "{", "}", "a", " ", "\"", ";" }

SkipInit ==
    /\ lex \in { NewLexer(d) : d \in SeqsUpTo(SkipChars, MaxLen) }
    /\ calls = <<>>
    /\ ImportUnused /\ ExportUnused /\ FtosUnused

\* The lexer after a call of skip_bracket_delimiter_section that gave k, and
\* the record of the call.
SkipCalled(k) ==
    /\ lex' = k.lex
    /\ calls' = Append(calls, [start |-> lex.pos, err |-> k.err, pos |-> k.lex.pos])

LexSkipSection ==
    /\ Len(calls) < MaxCalls
    /\ IF calls = <<>> THEN TRUE ELSE calls[Len(calls)].err = ""
    /\ SkipCalled(skip_bracket_delimiter_section(lex, <<"{">>, <<"}">>))
    /\ UNCHANGED <<importVars, exportVars, ftosVars>>

SkipNext == LexSkipSection

SpecSkip == SkipInit /\ [][SkipNext]_vars

\* The table a parse function leaves when it works on n = [lex, f, decls] to
\* its end (a return, an exception or an iteration that repeats for ever).
OpenedAlone(o, n) == Parsed(o.lex, o.f, n.decls)
BodyAlone(b, n) ==
    IF b.lex = n.lex THEN Parsed(b.lex, [b.f EXCEPT !.pc = "hang"], n.decls)
    ELSE Parsed(b.lex, b.f, [n.decls EXCEPT ![n.f.decl] = b.decl])
RECURSIVE ParseFrom(_, _)
ParseFrom(kind, n) ==
    IF n.f.pc = "top"
    THEN ParseFrom(kind, IF kind = "materials" THEN MatTopIteration(n.lex, n.f, n.decls)
                         ELSE EntTopIteration(n.lex, n.f, n.decls))
    ELSE IF n.f.pc = "open" THEN ParseFrom(kind, OpenedAlone(OpenBody(n.lex, n.f), n))
    ELSE IF n.f.pc = "body"
    THEN ParseFrom(kind, BodyAlone(IF kind = "materials"
                                   THEN MatBodyIteration(n.lex, n.f, n.decls[n.f.decl])
                                   ELSE EntBodyIteration(n.lex, n.f, n.decls[n.f.decl]), n))
    ELSE n.decls

\* The table after the file alone is imported into an empty scene.
DeclaredAlone(file) ==
    ParseFrom(IF file.ext = "mtr" THEN "materials" ELSE "entities",
              Parsed(NewLexer(file.data), ParseLocals, <<>>))

\* The table of the kind of the last run.
TableOfRun == IF op.kind = "materials" THEN material_decls ELSE entities

\* A run of execute is over and returned (no exception left it).
RunReturned == op.runs > 0 /\ op.pc = "idle" /\ op.report # <<>> /\ op.report[1] = "INFO"

\* The place among the results of the run of the file at place k of directory d.
PlaceInRun(d, k) ==
    CHOOSE i \in 1..Len(RunResults) : RunResults[i].dir = d /\ RunResults[i].idx = k

\* The pairs <<d, k, e, i, name>>: the file at place k of directory d and the
\* file at place i of a directory e searched later match the pattern of the
\* run, have different basenames and both declare the name.
DeclaredTwice ==
    { q \in (1..Len(disk)) \X (1..Cardinality(BatchBases)) \X (1..Len(disk))
            \X (1..Cardinality(BatchBases)) \X BatchNames :
        /\ q[1] < q[3]
        /\ q[2] <= Len(disk[q[1]]) /\ q[4] <= Len(disk[q[3]])
        /\ disk[q[1]][q[2]].ext = Pattern(op.kind) /\ disk[q[3]][q[4]].ext = Pattern(op.kind)
        /\ disk[q[1]][q[2]].base # disk[q[3]][q[4]].base
        /\ Contains(DeclaredAlone(disk[q[1]][q[2]]), q[5])
        /\ Contains(DeclaredAlone(disk[q[3]][q[4]]), q[5]) }

\* Both files of the pair were handed to the callback, the one of the
\* directory searched first before the other, and the record of the name is
\* that of the file of the directory searched later: for an entity every
\* property, for a material every property that file sets.
LaterFileWins(q) ==
    LET alone == DeclaredAlone(disk[q[3]][q[4]])
        last == alone[IndexOf(alone, q[5])]
    IN  /\ Processed(q[1], q[2]) /\ Processed(q[3], q[4])
        /\ PlaceInRun(q[1], q[2]) < PlaceInRun(q[3], q[4])
        /\ Contains(TableOfRun, q[5])
        /\ IF op.kind = "entities"
           THEN TableOfRun[IndexOf(TableOfRun, q[5])] = last
           ELSE \A field \in DOMAIN last :
                    last[field] # MaterialDeclPropGroup[field]
                    => TableOfRun[IndexOf(TableOfRun, q[5])][field] = last[field]

\* C29 as stated: after a run that returned, of any two files with different
\* basenames in different search directories that declare the same name, both
\* were processed, the higher-priority one first, and the record is that of
\* the lower-priority file.
C29_Original == RunReturned => \A q \in DeclaredTwice : LaterFileWins(q)

\* C29: the same, for two files neither of which is shadowed by a file of the
\* same basename in a search directory of higher priority.
C29_LowerPriorityFileWins ==
    RunReturned
    => \A q \in DeclaredTwice :
           (~Shadowed(q[1], q[2]) /\ ~Shadowed(q[3], q[4])) => LaterFileWins(q)

\* C29 witness: the mod directory lists a.def (E with a usage and mins), base
\* lists b.def (E with another usage); after the run E has the usage of b.def
\* and no mins.
C29_Witness ==
    /\ RunReturned /\ op.kind = "entities"
    /\ <<1, 1, 3, 1, <<"E">>>> \in DeclaredTwice
    /\ Len(results) = 2
    /\ Len(entities) = 1
    /\ entities[1].usage = <<"q">> /\ entities[1].mins = <<>>

\* The name of the declaration the outer loop is about to read: the token
\* after the keyword material or entityDef, or the first token.
DeclNameAhead ==
    LET first == parse_token(lex)
    IN  IF TokenOf(first) \in { kw_material, kw_entityDef }
        THEN TokenOf(parse_token(first.lex))
        ELSE TokenOf(first)

\* A record that has a name and nothing else set.
EmptyRecord(name) ==
    IF op.kind = "materials" THEN [MaterialDeclPropGroup EXCEPT !.name = name]
    ELSE [EntityPropGroup EXCEPT !.name = name, !.color = default_color]

\* The step from the name of a declaration to its opening brace leaves the
\* record of the name in the table: added with nothing set when the name is
\* new; otherwise a material as it was and an entity reset.
RecordBeforeBrace(table, after) ==
    IF ~Contains(table, DeclNameAhead)
    THEN after = Append(table, EmptyRecord(DeclNameAhead))
    ELSE IF op.kind = "materials" THEN after = table
    ELSE after = [table EXCEPT ![IndexOf(table, DeclNameAhead)] = EmptyRecord(DeclNameAhead)]

\* The lexer is behind the name of a declaration and the next token is not
\* the opening brace (or there is none).
AtBraceMismatch ==
    /\ op.pc = "parsing" /\ imp.pc = "open"
    /\ parse_token(lex).ret.err = ""
    /\ TokenOf(parse_token(lex)) # <<"{">>

\* C30: the table is changed before the opening brace is checked. The step
\* from a declaration's name leaves its record in the table; when the next
\* token is not the opening brace (or the input ends), expect_token raises
\* the token-mismatch error with the token expected, the token got and the
\* line of the lexer, while the record of the name is in the table (an entity
\* reset to its defaults); neither this step nor the exception leaving the
\* operator changes the table.
C30_RecordBeforeBrace ==
    [][ /\ (op.pc = "parsing" /\ imp.pc = "top" /\ imp'.pc = "open")
           => /\ RecordBeforeBrace(TableOfRun, TableOfRun')
              /\ imp'.decl \in 1..Len(TableOfRun')
              /\ TableOfRun'[imp'.decl].name = DeclNameAhead
        /\ AtBraceMismatch
           => /\ imp'.pc = "error" /\ imp'.err = "expected token"
              /\ expect_token(lex, <<"{">>).expected = <<"{">>
              /\ expect_token(lex, <<"{">>).got = TokenOf(parse_token(lex))
              /\ expect_token(lex, <<"{">>).line = lex'.line
              /\ lex'.line = 1 + Cardinality({ j \in 0..(lex'.pos - 1) : CharAt(lex.data, j) = "\n" })
              /\ UNCHANGED <<material_decls, entities>>
              /\ imp.decl \in 1..Len(TableOfRun)
              /\ op.kind = "entities"
                 => TableOfRun[imp.decl] = EmptyRecord(TableOfRun[imp.decl].name)
        /\ (imp.pc = "error" /\ imp'.pc = "raised")
           => UNCHANGED <<material_decls, entities>> ]_vars

\* C30 witness: a.def of the mod directory gave E a usage and mins; the E of
\* b.def is followed by a closing brace: the exception is raised and E is in
\* the table with its defaults.
C30_Witness ==
    /\ op.pc = "parsing" /\ op.kind = "entities"
    /\ imp.pc = "error" /\ imp.err = "expected token"
    /\ Len(results) = 1 /\ results[1].updated = 0 /\ results[1].created = 1
    /\ lex.data = <<"e", "n", "t", "i", "t", "y", "D", "e", "f", " ", "E", " ", "}">>
    /\ entities = << [EntityPropGroup EXCEPT !.name = <<"E">>, !.color = default_color] >>

(***************************************************************************)
(* Properties of the lexer.                                                *)
(***************************************************************************)
IsWordChar(c) == c \in valid_token_chars

\* The first position at or after p that holds no word character (Len(data) if none).
WordRunEnd(data, p) ==
    CHOOSE e \in p..Len(data) :
        /\ \A j \in p..(e - 1) : IsWordChar(CharAt(data, j))
        /\ e < Len(data) => ~IsWordChar(CharAt(data, e))

\* Positions of the double quotes after position p.
QuotesAfter(data, p) == { j \in (p + 1)..(Len(data) - 1) : CharAt(data, j) = "\"" }

\* C1: a call of parse_token whose token begins with a double quote, with another
\* double quote after it, returns without error exactly the characters between
\* the two quotes (whatever they are) as one token, and leaves the position
\* right after the closing quote.
C1_QuotedTokenVerbatim ==
    \A k \in 1..Len(calls) :
        LET c == calls[k]
            d == lex.data
        IN  (c.start < Len(d) /\ CharAt(d, c.start) = "\"" /\ QuotesAfter(d, c.start) # {})
            => LET q == Least(QuotesAfter(d, c.start))
               IN  /\ c.err = "" /\ ~c.none
                   /\ c.tok = [i \in 1..(q - c.start - 1) |-> CharAt(d, c.start + i)]
                   /\ c.pos = q + 1

\* C1 witness: the text "a a" in quotes was lexed to the one token a a.
C1_Witness ==
    /\ lex.data = <<"\"", "a", " ", "a", "\"">>
    /\ Len(calls) >= 1
    /\ calls[1].tok = <<"a", " ", "a">>
    /\ lex.pos = 5

\* The single-character punctuation the claim C2 lists (not - and /, which are
\* word characters as well).
PunctC2 == { "{","}","[","]","(",")","+","*","%","!","=","<",">","," }

\* A comment opener (// or /*) begins at position j.
CommentOpenerAt(data, j) ==
    /\ j + 1 < Len(data)
    /\ CharAt(data, j) = "/"
    /\ CharAt(data, j + 1) \in { "/", "*" }

\* Call k starts on a run of word characters that is directly followed by a
\* punctuation character of PunctC2 and then by another run of word characters.
WordPunctWordAt(k) ==
    LET d == lex.data
        s == calls[k].start
    IN  /\ s < Len(d) /\ IsWordChar(CharAt(d, s))
        /\ LET i == WordRunEnd(d, s)
           IN  /\ i + 1 < Len(d)
               /\ CharAt(d, i) \in PunctC2
               /\ IsWordChar(CharAt(d, i + 1))

\* The calls k, k+1, k+2 (those made so far) returned the run, the punctuation
\* character alone and the following run.
ReturnsWordPunctWord(k) ==
    LET d == lex.data
        s == calls[k].start
        i == WordRunEnd(d, s)
        e == WordRunEnd(d, i + 1)
        Is(n, a, b) == n <= Len(calls) =>
                          /\ calls[n].err = "" /\ ~calls[n].none
                          /\ calls[n].start = a /\ calls[n].pos = b
                          /\ calls[n].tok = Slice(d, a, b)
    IN  Is(k, s, i) /\ Is(k + 1, i, i + 1) /\ Is(k + 2, i + 1, e)

\* C2 as stated: for every such input the three calls return run, punctuation, run.
C2_Original ==
    \A k \in 1..Len(calls) : WordPunctWordAt(k) => ReturnsWordPunctWord(k)

\* C2 amended: the same, for runs that hold no comment opener (// or /*) and
\* form none with the character that follows them, the second run not being
\* directly followed by a double quote (which raises "quote in middle of token").
C2_PunctuationSplitsWords ==
    \A k \in 1..Len(calls) :
        (/\ WordPunctWordAt(k)
         /\ LET d == lex.data
                s == calls[k].start
                e == WordRunEnd(d, WordRunEnd(d, s) + 1)
            IN  /\ \A j \in s..(e - 1) : ~CommentOpenerAt(d, j)
                /\ e < Len(d) => CharAt(d, e) # "\"")
        => ReturnsWordPunctWord(k)

\* C2 witness: a{a was lexed to a, {, a.
C2_Witness ==
    /\ lex.data = <<"a", "{", "a">>
    /\ Len(calls) >= 3
    /\ calls[1].tok = <<"a">> /\ calls[2].tok = <<"{">> /\ calls[3].tok = <<"a">>

\* Call k starts on one or more word characters, none of them opening a
\* comment, that are directly followed by a double quote.
QuoteAfterWord(k) ==
    LET d == lex.data
        s == calls[k].start
    IN  \E q \in (s + 1)..(Len(d) - 1) :
            /\ CharAt(d, q) = "\""
            /\ \A j \in s..(q - 1) : IsWordChar(CharAt(d, j)) /\ ~CommentOpenerAt(d, j)

\* C13: a call of parse_token raises "quote in middle of token" exactly when a
\* double quote directly follows one or more word characters of the token the
\* call is reading; a call whose token begins with the quote never raises it.
C13_UnexpectedQuote ==
    \A k \in 1..Len(calls) :
        /\ calls[k].err = "quote in middle of token" <=> QuoteAfterWord(k)
        /\ (calls[k].start < Len(lex.data) /\ CharAt(lex.data, calls[k].start) = "\"")
               => calls[k].err # "quote in middle of token"

\* C13 witness: on the text aa"a" the first call raised the error at the quote.
C13_Witness ==
    /\ lex.data = <<"a", "a", "\"", "a", "\"">>
    /\ Len(calls) = 1
    /\ calls[1].err = "quote in middle of token"
    /\ calls[1].pos = 2

\* C14: a call of parse_token whose token begins with a double quote that no
\* other double quote follows raises "eof in quoted token" and returns no token.
C14_UnterminatedQuote ==
    \A k \in 1..Len(calls) :
        (/\ calls[k].start < Len(lex.data)
         /\ CharAt(lex.data, calls[k].start) = "\""
         /\ QuotesAfter(lex.data, calls[k].start) = {})
        => /\ calls[k].err = "eof in quoted token"
           /\ ~calls[k].none
           /\ calls[k].tok = <<>>

\* C14 witness: on the text a "a{ the second call began at the quote and raised.
C14_Witness ==
    /\ lex.data = <<"a", " ", "\"", "a", "{">>
    /\ Len(calls) = 2
    /\ calls[1].tok = <<"a">>
    /\ calls[2].start = 2
    /\ calls[2].err = "eof in quoted token"

\* The position of the lexer when call k was made.
PosBefore(k) == IF k = 1 THEN 0 ELSE calls[k - 1].pos

\* C25: every call of parse_token that returns a token (not the end marker,
\* not an exception) leaves the lexer at a position strictly after the one it
\* was called at, whatever characters the text holds, so that a loop over the
\* tokens ends.
C25_TokenAdvances ==
    \A k \in 1..Len(calls) :
        (calls[k].err = "" /\ ~calls[k].none) => calls[k].pos > PosBefore(k)

\* The positions before the lexer's that hold a newline outside the tokens the
\* calls returned: the newlines skipped as whitespace or inside comments.
SkippedNewlines ==
    { j \in 0..(lex.pos - 1) :
        /\ CharAt(lex.data, j) = "\n"
        /\ \A k \in 1..Len(calls) : ~(calls[k].start <= j /\ j < calls[k].pos) }

\* C26: after calls of parse_token that all returned without error, line is 1
\* plus the number of newlines skipped before the current position as
\* whitespace or inside comments, block comments of several lines included.
C26_LineCountsNewlines ==
    (\A k \in 1..Len(calls) : calls[k].err = "")
    => lex.line = 1 + Cardinality(SkippedNewlines)

(***************************************************************************)
(* Properties of skip_bracket_delimiter_section.                           *)
(***************************************************************************)
\* The first position at or after p that holds no space (Len(data) if none).
FirstNonSpace(data, p) ==
    CHOOSE e \in p..Len(data) :
        /\ \A j \in p..(e - 1) : CharAt(data, j) = " "
        /\ e < Len(data) => CharAt(data, e) # " "

\* No quote and no character that parse_token cannot consume from p on.
BracesAndWords(data, p) == \A j \in p..(Len(data) - 1) : CharAt(data, j) \notin { "\"", ";" }

\* C15 as stated: the caller has consumed the opening token, so a call counts
\* from 1 at the position it is entered at and returns without error at the
\* closing token that brings the count to 0 or at the end of input.
C15_Original ==
    \A k \in 1..Len(calls) :
        BracesAndWords(lex.data, calls[k].start)
        => /\ calls[k].err = ""
           /\ calls[k].pos = SectionEnd(lex.data, calls[k].start, 1)

\* C15: skip_bracket_delimiter_section reads the opening token itself. A call
\* raises when the next token is not the opening one, the end of input
\* included; after an opening brace it never raises the mismatch error, and in
\* a text of braces and words it counts from 1 after that brace and returns
\* without error just after the closing brace that brings the count to 0, or
\* at the end of input when there is none.
C15_SkipSection ==
    \A k \in 1..Len(calls) :
        LET d == lex.data
            o == FirstNonSpace(d, calls[k].start)
        IN  /\ (o = Len(d) \/ CharAt(d, o) \notin { "{", "\"" })
                   => calls[k].err \in { "expected token", "quote in middle of token" }
            /\ (o < Len(d) /\ CharAt(d, o) = "{")
                   => /\ calls[k].err # "expected token"
                      /\ BracesAndWords(d, o)
                             => /\ calls[k].err = ""
                                /\ calls[k].pos = SectionEnd(d, o + 1, 1)

\* C15 witness: on the text {{}}a the call returned after the fourth brace,
\* and on the rest, which opens no section, the next call raised.
C15_Witness ==
    /\ lex.data = <<"{", "{", "}", "}", "a">>
    /\ Len(calls) = 2
    /\ calls[1].err = "" /\ calls[1].pos = 4
    /\ calls[2].err = "expected token"

(***************************************************************************)
(* ftos on its own: any number of up to MaxMantissa millionths shifted by  *)
(* up to MaxExponent decimal places, of either sign, and one call.         *)
(***************************************************************************)
RECURSIVE Pow10(_)
Pow10(e) == IF e = 0 THEN 1 ELSE 10 * Pow10(e - 1)

\* The magnitudes stay below MaxMagnitude, within 32-bit integers.
Mantissas(e) == { i \in 0..MaxMantissa : i <= MaxMagnitude \div Pow10(e) }
FtosInputs ==
    { [neg |-> s, mag |-> m] :
          s \in BOOLEAN, m \in UNION { { i * Pow10(e) : i \in Mantissas(e) } : e \in 0..MaxExponent } }

\* The lexer is not part of the run.
LexUnused == lex = NewLexer(<<>>) /\ calls = <<>>

FtosInit ==
    /\ ftos_a \in FtosInputs
    /\ ftos_result = None
    /\ LexUnused /\ ImportUnused /\ ExportUnused

FtosCall ==
    /\ ftos_result = None
    /\ ftos_result' = ftos(ftos_a)
    /\ UNCHANGED <<ftos_a, lexVars, importVars, exportVars>>

FtosNext == FtosCall

SpecFtos == FtosInit /\ [][FtosNext]_vars

(***************************************************************************)
(* Properties of ftos.                                                     *)
(***************************************************************************)
HasPoint(str) == \E i \in 1..Len(str) : str[i] = "."
IntegerPartOf(str) ==
    IF HasPoint(str) THEN SubSeq(str, 1, (CHOOSE i \in 1..Len(str) : str[i] = ".") - 1) ELSE str
Zeros(k) == [i \in 1..k |-> "0"]
Plain(units, millionths) == [neg |-> FALSE, mag |-> units * Million + millionths]

\* C9: the result of ftos is the six-decimal rendering of the number without
\* the zeros that end its fraction and without a decimal point left at the end:
\* it never ends in '.', never ends in '0' after a decimal point, its integer
\* part is the number's sign and integer digits, and ftos(1.5) = "1.5",
\* ftos(2.0) = "2", ftos(0.125) = "0.125", ftos(100) = "100", ftos(0) = "0".
C9_FtosStripsFraction ==
    ftos_result # None
    => /\ ftos_result # <<>>
       /\ ftos_result[Len(ftos_result)] # "."
       /\ HasPoint(ftos_result) => ftos_result[Len(ftos_result)] # "0"
       /\ IntegerPartOf(ftos_result)
              = (IF ftos_a.neg THEN <<"-">> ELSE <<>>) \o Decimal(ftos_a.mag \div Million)
       /\ \E k \in 0..6 :
              FormatF(ftos_a) = ftos_result
                                   \o (IF HasPoint(ftos_result) THEN <<>> ELSE <<".">>)
                                   \o Zeros(k)
       /\ ftos_a = Plain(1, 500000) => ftos_result = <<"1", ".", "5">>
       /\ ftos_a = Plain(2, 0) => ftos_result = <<"2">>
       /\ ftos_a = Plain(0, 125000) => ftos_result = <<"0", ".", "1", "2", "5">>
       /\ ftos_a = Plain(100, 0) => ftos_result = <<"1", "0", "0">>
       /\ ftos_a = Plain(0, 0) => ftos_result = <<"0">>

\* C9 witness: ftos(10.5) was called and gave "10.5": a zero ends the integer
\* part and zeros end the fraction, and only the latter were removed.
C9_Witness == ftos_a = Plain(10, 500000) /\ ftos_result = <<"1", "0", ".", "5">>

(***************************************************************************)
(* The scenes of the export runs: up to MaxObjects objects, some of them   *)
(* mesh objects of a worldspawn group, if there is one.                    *)
(***************************************************************************)
MeshVertex(x, y, z, nx, ny, nz) == [co |-> <<x, y, z>>, normal |-> <<nx, ny, nz>>]
Corner(vertex_index, u, v) == [vertex_index |-> vertex_index, uv |-> <<u, v>>]

\* one quad
Quad ==
    [vertices |-> <<MeshVertex(0, 0, 0, 0, 0, Million), MeshVertex(Million, 0, 0, 0, 0, Million),
                    MeshVertex(Million, Million, 0, 0, 0, Million),
                    MeshVertex(0, Million, 0, 0, 0, Million)>>,
     polygons |-> <<[material_index |-> 1,
                     corners |-> <<Corner(0, 0, 0), Corner(1, Million, 0),
                                   Corner(2, Million, Million), Corner(3, 0, Million)>>]>>]

\* two triangles that share an edge whose vertices carry a different UV in each
Seam ==
    [vertices |-> Quad.vertices,
     polygons |-> <<[material_index |-> 0,
                     corners |-> <<Corner(0, 0, 0), Corner(1, Million, 0), Corner(3, 0, Million)>>],
                    [material_index |-> 1,
                     corners |-> <<Corner(3, 500000, 0), Corner(1, 0, 500000),
                                   Corner(2, 500000, 500000)>>]>>]

\* a triangle and a vertex no polygon uses
Stray ==
    [vertices |-> <<MeshVertex(0, 0, 0, 0, 0, Million), MeshVertex(0, 0, Million, 0, 0, Million),
                    MeshVertex(Million, 0, 0, 0, 0, Million),
                    MeshVertex(0, Million, 0, 0, 0, Million)>>,
     polygons |-> <<[material_index |-> 0,
                     corners |-> <<Corner(0, 0, 0), Corner(2, Million, 0), Corner(3, 0, Million)>>]>>]

\* the cube: 8 vertices, 6 quads, each quad unwrapped to a UV square of its own
CubeSide(b) == (2 * b - 1) * Million
CubeNormal(b) == (2 * b - 1) * 577350
CubeVertex(i) ==
    MeshVertex(CubeSide(i \div 4), CubeSide((i \div 2) % 2), CubeSide(i % 2),
               CubeNormal(i \div 4), CubeNormal((i \div 2) % 2), CubeNormal(i % 2))
CubeFaces == << <<0, 1, 3, 2>>, <<4, 6, 7, 5>>, <<0, 4, 5, 1>>,
                <<2, 3, 7, 6>>, <<0, 2, 6, 4>>, <<1, 5, 7, 3>> >>
CubeQuad(f) ==
    [material_index |-> f % 2,
     corners |-> <<Corner(CubeFaces[f][1], 2 * f * Million, 0),
                   Corner(CubeFaces[f][2], (2 * f + 1) * Million, 0),
                   Corner(CubeFaces[f][3], (2 * f + 1) * Million, Million),
                   Corner(CubeFaces[f][4], 2 * f * Million, Million)>>]
Cube ==
    [vertices |-> [i \in 1..8 |-> CubeVertex(i - 1)],
     polygons |-> [f \in 1..6 |-> CubeQuad(f)]]

Meshes == { Quad, Seam, Stray, Cube }

\* The k-th object of the worldspawn group, two units further along x than the one before.
WorldObject(mesh, k) ==
    [name |-> <<"b", DigitChar(k)>>,
     matrix_world |-> <<2 * (k - 1) * Million, 0, 0>>,
     material_slots |-> << <<"m">>, <<"n">> >>,
     data |-> mesh]
Worlds(n) ==
    { [k \in 1..Len(ms) |-> WorldObject(ms[k], k)] : ms \in SeqsUpTo(Meshes, n) }

NoLamp == [distance |-> 0, color |-> <<0, 0, 0>>, use_specular |-> TRUE, use_diffuse |-> TRUE]
Lamp(use_specular, use_diffuse) ==
    [distance |-> 2 * Million, color |-> <<Million, 500000, 0>>,
     use_specular |-> use_specular, use_diffuse |-> use_diffuse]
Object(bfg_type, type, classname, entity_model, light_material, location, rotation_euler, data) ==
    [name |-> <<>>, bfg_type |-> bfg_type, type |-> type, classname |-> classname,
     entity_model |-> entity_model, light_material |-> light_material,
     location |-> location, rotation_euler |-> rotation_euler, data |-> data]

ObjectTemplates == {
    \* an entity that is not turned
    Object("ENTITY", "MESH", <<"i", "n", "f", "o">>, <<>>, kw_default,
           <<Million, 2 * Million, 500000>>, <<0, 0, 0>>, NoLamp),
    \* an entity turned by a quarter about z
    Object("ENTITY", "MESH", <<"i", "n", "f", "o">>, <<>>, kw_default,
           <<0 - 1500000, 0, 125000>>, <<0, 0, 1>>, NoLamp),
    \* a static model, its model path written with a backslash
    Object("STATIC_MODEL", "MESH", <<"f", "u", "n", "c", "_", "s", "t", "a", "t", "i", "c">>,
           <<"m", "\\", "a", ".", "l", "w", "o">>, kw_default,
           <<0, 0, Million>>, <<0, 1, 3>>, NoLamp),
    \* lights: specular off and a light material, diffuse off
    Object("NONE", "LAMP", <<>>, <<>>, <<"l", "/", "x">>, <<Million, 0, 0>>, <<0, 0, 0>>,
           Lamp(FALSE, TRUE)),
    Object("NONE", "LAMP", <<>>, <<>>, kw_default, <<0, Million, 0>>, <<0, 0, 0>>,
           Lamp(TRUE, FALSE)),
    \* a brush, as the mesh objects of the worldspawn group are
    Object("BRUSH", "MESH", <<>>, <<>>, kw_default, <<0, 0, 0>>, <<0, 0, 0>>, NoLamp) }

\* context.scene.objects: the k-th object is named ok.
Scenes(n) ==
    { [k \in 1..Len(ts) |-> [ts[k] EXCEPT !.name = <<"o", DigitChar(k)>>]] :
          ts \in SeqsUpTo(ObjectTemplates, n) }

kw_entities == <<"e", "n", "t", "i", "t", "i", "e", "s">>

\* bpy.data.groups: no group, a group of another name, or the worldspawn group.
GroupLists ==
    { <<>>, <<[name |-> kw_entities, objects |-> <<>>]>> }
        \cup { <<[name |-> kw_worldspawn, objects |-> w]>> : w \in Worlds(MaxObjects) }
GroupObjects(grps) == IF grps = <<>> THEN 0 ELSE Len(grps[1].objects)

\* A file a former export left at self.filepath.
OldFile == Written(FALSE, [version |-> PyInt(2), entities |-> <<>>])

ExportInit ==
    /\ groups \in GroupLists
    /\ scene_objects \in Scenes(MaxObjects - GroupObjects(groups))
    /\ map_file \in { NoFile, OldFile }
    /\ export \in { ExportIdle(indent) : indent \in BOOLEAN }
    /\ LexUnused /\ ImportUnused /\ FtosUnused

\* ExportMap.execute
ExportExecute ==
    /\ export.pc = "idle"
    /\ map_file' = FileAfterExecute(groups, scene_objects, export.indent, map_file)
    /\ export' = [export EXCEPT
                     !.pc = "finished",
                     !.report = IF Contains(groups, kw_worldspawn) THEN <<>> ELSE <<"ERROR">>,
                     !.built = IF Contains(groups, kw_worldspawn)
                               THEN Len(map_file'.data.entities) ELSE 0]
    /\ UNCHANGED <<groups, scene_objects, lexVars, importVars, ftosVars>>

ExportNext == ExportExecute

SpecExport == ExportInit /\ [][ExportNext]_vars

(***************************************************************************)
(* Properties of the exporter.                                             *)
(***************************************************************************)
\* execute has run with a worldspawn group and has written the file.
Exported == export.pc = "finished" /\ Contains(groups, kw_worldspawn)
WorldspawnObjects == groups[IndexOf(groups, kw_worldspawn)].objects

\* The (source vertex, UV) uses of a mesh: the distinct corners of its polygons.
VertexUvUses(mesh) == { Loops(mesh)[l] : l \in 1..Len(Loops(mesh)) }

\* C6: a primitive holds one vertex per distinct (source vertex, UV) use of the
\* object's mesh; the primitive of the cube (8 vertices, 6 quads, each unwrapped
\* on its own) holds exactly 24 vertices.
C6_OneVertexPerVertexUvUse ==
    Exported
    => \A k \in 1..Len(WorldspawnObjects) :
          /\ Len(map_file.data.entities[1].primitives[k].verts)
                 = Cardinality(VertexUvUses(WorldspawnObjects[k].data))
          /\ WorldspawnObjects[k].data = Cube
                 => Len(map_file.data.entities[1].primitives[k].verts) = 24

\* The object is exported as a light.
IsLight(obj) == obj.type = "LAMP" /\ obj.bfg_type # "ENTITY" /\ obj.bfg_type # "STATIC_MODEL"
FlagString(x, disabled) == x.type = "str" /\ x.val = IF disabled THEN <<"1">> ELSE <<"0">>

\* C7: in the written document, nospecular of every light is the string "1"
\* when the light's specular term is disabled and the string "0" when it is
\* enabled, and nodiffuse likewise for the diffuse term.
C7_NoFlagsAreStrings ==
    Exported
    => \A i \in 1..Len(scene_objects), j \in 2..Len(map_file.data.entities) :
          (IsLight(scene_objects[i]) /\ map_file.data.entities[j].name.val = scene_objects[i].name)
          => /\ FlagString(map_file.data.entities[j]["nospecular"],
                           ~scene_objects[i].data.use_specular)
             /\ FlagString(map_file.data.entities[j]["nodiffuse"],
                           ~scene_objects[i].data.use_diffuse)

\* The keys of an entity that hold numbers.
NumericKeys == { "origin", "angle", "rotation", "light_radius", "_color", "nospecular", "nodiffuse" }

AllStrings(values) == \A n \in 1..Len(values) : values[n].type = "str"

\* C19: in the written document the version and the entity and primitive
\* indices are integers and every other numeric field is a string: origin,
\* angle, rotation, light_radius, _color, nospecular and nodiffuse of the
\* entities, and xyz, st and normal of the vertices of the primitives.
C19_NumbersAreStrings ==
    Exported
    => /\ map_file.data.version.type = "int"
       /\ \A j \in 1..Len(map_file.data.entities) :
              /\ map_file.data.entities[j].entity.type = "int"
              /\ \A key \in NumericKeys \cap DOMAIN map_file.data.entities[j] :
                     map_file.data.entities[j][key].type = "str"
       /\ \A k \in 1..Len(map_file.data.entities[1].primitives) :
              /\ map_file.data.entities[1].primitives[k].primitive.type = "int"
              /\ \A n \in 1..Len(map_file.data.entities[1].primitives[k].verts) :
                     /\ AllStrings(map_file.data.entities[1].primitives[k].verts[n].xyz)
                     /\ AllStrings(map_file.data.entities[1].primitives[k].verts[n].st)
                     /\ AllStrings(map_file.data.entities[1].primitives[k].verts[n].normal)

\* The corners of the polygons of a primitive: <<polygon, corner>>.
CornersOf(prim) ==
    { pc \in (1..Len(prim.polygons)) \X (1..3) : pc[2] <= Len(prim.polygons[pc[1]].indices) }

\* The index the primitive gives the corner.
IndexAt(prim, pc) == prim.polygons[pc[1]].indices[pc[2]].val

\* The output vertex carries the position (moved to the world, scaled to the
\* game) and the normal of the source vertex v and the UV of the corner.
CarriesCorner(vert, v, matrix_world, corner) ==
    /\ vert.xyz = [a \in 1..3 |-> PyFloat((v.co[a] + matrix_world[a]) * scale_to_game)]
    /\ vert.normal = [a \in 1..3 |-> PyFloat(v.normal[a])]
    /\ vert.st = [a \in 1..2 |-> PyFloat(corner.uv[a])]

C8_NoWorldspawnNoWrite ==
    [][(export.pc = "idle" /\ export'.pc = "finished" /\ ~Contains(groups, kw_worldspawn))
       => /\ map_file' = map_file
          /\ export'.report = <<"ERROR">>
          /\ export'.built = 0]_vars

\* C8 witness: execute has run on a scene of an entity and a light without a
\* worldspawn group; the file of the former export is still there.
C8_Witness ==
    /\ export.pc = "finished"
    /\ ~Contains(groups, kw_worldspawn)
    /\ Len(scene_objects) = 2
    /\ scene_objects[1].bfg_type = "ENTITY" /\ scene_objects[2].type = "LAMP"
    /\ map_file = OldFile
    /\ export.report = <<"ERROR">>

\* generic entity, static model or light
IsPlaced(obj) == obj.bfg_type \in { "ENTITY", "STATIC_MODEL" } \/ obj.type = "LAMP"
PlacedNames(objects) ==
    [k \in 1..Len(SelectSeq(objects, IsPlaced)) |-> SelectSeq(objects, IsPlaced)[k].name]

\* C10: the written document has version 3; its first entity is worldspawn,
\* with entity index 0 and one primitive per object of the group, numbered from
\* 0 in the group's order; the entities after it are the placed objects of the
\* scene in scene order; and the entity field of every element is its position.
C10_DocumentShape ==
    Exported
    => /\ map_file.exists
       /\ map_file.data.version = PyInt(3)
       /\ map_file.data.entities[1].classname = PyStr(kw_worldspawn)
       /\ Len(map_file.data.entities[1].primitives) = Len(WorldspawnObjects)
       /\ \A k \in 1..Len(WorldspawnObjects) :
              map_file.data.entities[1].primitives[k].primitive = PyInt(k - 1)
       /\ Len(map_file.data.entities) = 1 + Len(PlacedNames(scene_objects))
       /\ \A j \in 2..Len(map_file.data.entities) :
              map_file.data.entities[j].name = PyStr(PlacedNames(scene_objects)[j - 1])
       /\ \A j \in 1..Len(map_file.data.entities) : map_file.data.entities[j].entity = PyInt(j - 1)

\* C10 witness: a worldspawn group of one object and a scene of a brush and
\* then a light were exported: the light is entity 1.
C10_Witness ==
    /\ Exported
    /\ Len(WorldspawnObjects) = 1
    /\ Len(scene_objects) = 2
    /\ scene_objects[1].bfg_type = "BRUSH" /\ scene_objects[2].type = "LAMP"
    /\ Len(map_file.data.entities) = 2
    /\ map_file.data.entities[2].entity = PyInt(1)
    /\ map_file.data.entities[2].classname = PyStr(kw_light)

====
